---- MODULE Spec2Model ----
(***************************************************************************)
(* smart_planner: the slot cascade (LLMService), the external ranking and  *)
(* search client (PolzaService), the response extractor and the planner    *)
(* service with its SQLite store (PlannerService, Database).               *)
(*                                                                         *)
(* Texts produced by the external model are sequences of tokens:           *)
(*   "F"  the fence opener ```json      "E"  the fence closer ```          *)
(*   "{" "}"  braces                    "x"  prose without braces or URLs  *)
(*   "m"  the members of a JSON object ("answer": .., "sources": ..), whose*)
(*        own braces are balanced; their values are the reply's payload    *)
(*   "n"  a JSON value that is no object: the array [1]                    *)
(*   "u1" "u2"  a URL written in prose                                     *)
(* White space, commas and the keys of nested objects are elided between   *)
(* tokens.                                                                 *)
(***************************************************************************)
EXTENDS Integers, Sequences, FiniteSets, TLC

\* ------------------------------------------------------------------ bounds
MaxTasks == 2
MaxLen == 6
MaxOps == 4
MaxCalls == 2

\* ------------------------------------------------------------- vocabulary
\* TimeBlock values, transliterated
MORNING == "utro"
DAY == "den"
EVENING == "vecher"
TimeBlock == {MORNING, DAY, EVENING}

LARK == "lark"
OWL == "owl"

None == "None"
MissingS == "<missing>"
NullS == "<null>"

Min(a, b) == IF a < b THEN a ELSE b

\* A title is its text (name) and the task titles and categories that occur
\* in it as substrings (words): the only thing the code asks of a title.
MkTitle(name, words) == [name |-> name, words |-> words]
PlainTitle(name) == MkTitle(name, {})
MissingTitle == MkTitle(MissingS, {})
NullTitle == MkTitle(NullS, {})

\* `sub in title` of Python, for sub a task title or a category
IsSubstr(sub, title) == sub = "" \/ sub \in title.words

\* ------------------------------------------------------------ JSON values
\* Source.id: given by the reply, or made by the code from the query
\* (polza_{query}_{idx}), from the task id (ranking_{task.id}_{idx}) or from
\* a fresh uuid (extracted_{uuid}, one per call and position).
SourceId(kind, a, b, tid, idx) ==
    [kind |-> kind, a |-> a, b |-> b, tid |-> tid, idx |-> idx]
MissingId == SourceId(MissingS, "", "", 0, 0)

\* A JSON object that is an item of a "sources" list (t = "dict"), or an
\* item of another JSON type (t = "num").
Item(title, url) ==
    [t |-> "dict", title |-> title, name |-> MissingTitle, url |-> url,
     link |-> MissingS, href |-> MissingS, id |-> MissingId]
NumItem == [Item(MissingTitle, MissingS) EXCEPT !.t = "num"]

\* The value under a key: t in {"missing", "null", "num", "str", "list"};
\* items is the list when t = "list", the characters when t = "str".
JVal(t, items) == [t |-> t, items |-> items]
JMissing == JVal("missing", <<>>)
JList(items) == JVal("list", items)
JStr(chars) == JVal("str", chars)

\* bool(v) of Python for a value read with dict.get(key, [])
Truthy(v) ==
    CASE v.t = "missing" -> FALSE
      [] v.t = "null" -> FALSE
      [] v.t = "num" -> TRUE
      [] v.t = "str" -> v.items # <<>>
      [] v.t = "list" -> v.items # <<>>

\* len(v) raises TypeError for None and for a number
HasLen(v) == v.t \in {"missing", "str", "list"}

\* The members the token "m" stands for.
Payload(answer, sources) == [answer |-> answer, sources |-> sources]
NoPayload == Payload(MissingS, JMissing)

\* --------------------------------------------------------------- json.loads
JError == [t |-> "error", empty |-> TRUE, members |-> FALSE]
JOther == [t |-> "other", empty |-> FALSE, members |-> FALSE]
JDict(empty, members) == [t |-> "dict", empty |-> empty, members |-> members]

RECURSIVE IsMembers(_)
IsMembers(s) ==
    \/ s = <<>>
    \/ /\ s # <<>>
       /\ s[1] = "m"
       /\ IsMembers(Tail(s))
    \/ /\ s # <<>>
       /\ s[1] = "{"
       /\ \E k \in 2..Len(s) :
            /\ s[k] = "}"
            /\ IsMembers(SubSeq(s, 2, k - 1))
            /\ IsMembers(SubSeq(s, k + 1, Len(s)))

IsObject(s) ==
    /\ Len(s) >= 2
    /\ s[1] = "{"
    /\ s[Len(s)] = "}"
    /\ IsMembers(SubSeq(s, 2, Len(s) - 1))

Depth(s, p) ==
    Cardinality({q \in 1..(p - 1) : s[q] = "{"})
      - Cardinality({q \in 1..(p - 1) : s[q] = "}"})

\* json.loads(text): a dict, another value, or JSONDecodeError (JError)
json_loads(s) ==
    IF IsObject(s)
      THEN JDict(Len(s) = 2, \E p \in 1..Len(s) : s[p] = "m" /\ Depth(s, p) = 1)
      ELSE IF s = <<"n">> THEN JOther ELSE JError

\* --------------------------------------------------------- the extractor
\* re.search(r'```json\s*(\{.*?\})\s*```', content, re.DOTALL): the leftmost
\* opener followed by a brace, and the nearest closing brace followed by ```
\* (the first three characters of ```json are a closer too).
FenceEnds(content, i) ==
    {j \in (i + 2)..(Len(content) - 1) :
        content[j] = "}" /\ content[j + 1] \in {"E", "F"}}

FenceStarts(content) ==
    {i \in 1..Len(content) :
        /\ i + 1 <= Len(content)
        /\ content[i] = "F"
        /\ content[i + 1] = "{"
        /\ FenceEnds(content, i) # {}}

SetMin(S) == CHOOSE a \in S : \A b \in S : a <= b

\* the group of the greedy pattern \{.*\}: up to the last closing brace that
\* is followed by ```
FenceGroupGreedy(content) ==
    LET i == SetMin(FenceStarts(content))
        ends == FenceEnds(content, i)
        j == CHOOSE a \in ends : \A b \in ends : a >= b
    IN  SubSeq(content, i + 1, j)

FenceGroup(content) ==
    LET i == SetMin(FenceStarts(content))
        j == SetMin(FenceEnds(content, i))
    IN  SubSeq(content, i + 1, j)

\* content.find('{'): 0 when there is none
FindBrace(content) ==
    IF \E i \in 1..Len(content) : content[i] = "{"
      THEN SetMin({i \in 1..Len(content) : content[i] = "{"})
      ELSE 0

\* the depth-tracking scan for the matching closing brace: its index, or 0
RECURSIVE ScanClose(_, _, _)
ScanClose(content, i, brace_count) ==
    IF i > Len(content) THEN 0
    ELSE IF content[i] = "{" THEN ScanClose(content, i + 1, brace_count + 1)
    ELSE IF content[i] = "}"
      THEN IF brace_count - 1 = 0 THEN i
           ELSE ScanClose(content, i + 1, brace_count - 1)
    ELSE ScanClose(content, i + 1, brace_count)

JNone == [t |-> "None", empty |-> TRUE, members |-> FALSE]

\* the brace-matched substring, when the scan found its end
BraceGroup(content) ==
    LET start_idx == FindBrace(content)
        end_idx == IF start_idx = 0 THEN 0 ELSE ScanClose(content, start_idx, 0)
    IN  IF start_idx # 0 /\ end_idx # 0
          THEN SubSeq(content, start_idx, end_idx)
          ELSE <<>>

\* PolzaService._extract_json_from_response: the parsed value or None.
\* A JSONDecodeError of the fenced block or of the whole text leaves through
\* the outer except; only the brace-matched parse has a handler of its own.
_extract_json_from_response(content) ==
    IF FenceStarts(content) # {}
      THEN IF json_loads(FenceGroup(content)) = JError
             THEN JNone
             ELSE json_loads(FenceGroup(content))
      ELSE IF BraceGroup(content) # <<>> /\ json_loads(BraceGroup(content)) # JError
             THEN json_loads(BraceGroup(content))
             ELSE IF json_loads(content) = JError
                    THEN JNone
                    ELSE json_loads(content)

\* `not value` of Python for an extracted value
Falsy(v) == v.t = "None" \/ (v.t = "dict" /\ v.empty)

\* -------------------------------------------------------------- citations

Source(id, title, link) == [id |-> id, title |-> title, link |-> link, trust |-> TRUE]

\* the query built from a task: f"{title} {category}", or the title alone
Query(task) == [title |-> task.title, category |-> task.category]
QueryWords(query) ==
    {query.title} \cup (IF query.category = "" THEN {} ELSE {query.category})

\* the default title of a search citation, which quotes the query
TopicTitle(query) ==
    MkTitle("Statya po teme: " \o query.title \o " " \o query.category,
            QueryWords(query))

\* dict.get(key, default) on an item
Get(value, missing, default) == IF value = missing THEN default ELSE value

\* --------------------------------------------------- HTTP outcomes (replies)
\* kind: "timeout" | "connection" | "status" (not 2xx) | "badbody" (the body
\* is no JSON) | "nochoices" | "nocontent" | "content"
Reply(kind, content, payload) == [kind |-> kind, content |-> content, payload |-> payload]
Fail(kind) == Reply(kind, <<>>, NoPayload)

\* ------------------------------------------ PolzaService._extract_sources_from_text
\* A URL inside the JSON text of "m" is found with the closing quote of its
\* string attached, and has no white space before it.
Mangle(url) == url \o "\""

IsUrl(v) == v \notin {"", MissingS, NullS}

ItemUrls(item) ==
    IF item.t # "dict" THEN <<>>
    ELSE (IF IsUrl(item.url) THEN <<Mangle(item.url)>> ELSE <<>>)
         \o (IF IsUrl(item.link) THEN <<Mangle(item.link)>> ELSE <<>>)
         \o (IF IsUrl(item.href) THEN <<Mangle(item.href)>> ELSE <<>>)

RECURSIVE PayloadUrls(_)
PayloadUrls(items) ==
    IF items = <<>> THEN <<>>
    ELSE ItemUrls(Head(items)) \o PayloadUrls(Tail(items))

\* re.findall(r'https?://[^\s\)]+', content), each with the index of the token
\* it was found in
RECURSIVE FindUrls(_, _, _)
FindUrls(content, payload, p) ==
    IF p > Len(content) THEN <<>>
    ELSE (CASE content[p] \in {"u1", "u2"} -> <<[url |-> content[p], at |-> p, prose |-> TRUE]>>
            [] content[p] = "m" /\ payload.sources.t = "list" ->
                 LET us == PayloadUrls(payload.sources.items)
                 IN  [k \in 1..Len(us) |-> [url |-> us[k], at |-> p, prose |-> FALSE]]
            [] OTHER -> <<>>)
         \o FindUrls(content, payload, p + 1)

\* the text before an occurrence of the URL on its line, or the default
TextTitle(content, found, query) ==
    IF found.prose /\ \E p \in 2..Len(content) : content[p] = found.url
      THEN PlainTitle("text before " \o found.url)
      ELSE TopicTitle(query)

_extract_sources_from_text(content, payload, query) ==
    LET urls == FindUrls(content, payload, 1)
        n == Min(Len(urls), 3)
    IN  IF urls = <<>> THEN JMissing
        ELSE JList([k \in 1..n |->
               [Item(TextTitle(content, urls[k], query), urls[k].url)
                  EXCEPT !.id = SourceId("extracted", query.title, query.category, 0, k - 1)]])

\* --------------------------------------- PolzaService._parse_llm_response
\* sources_data["sources"] when `sources_data and "sources" in sources_data`,
\* else JMissing; sources_data is the extracted record or, when that is
\* falsy, the result of the URL scan.
SearchSourcesData(reply, query) ==
    LET extracted == _extract_json_from_response(reply.content)
    IN  IF Falsy(extracted)
          THEN _extract_sources_from_text(reply.content, reply.payload, query)
          ELSE IF extracted.t = "dict" /\ extracted.members
                 THEN reply.payload.sources
                 ELSE JMissing

ArticleTitle(article, query) ==
    Get(article.title, MissingTitle, Get(article.name, MissingTitle, TopicTitle(query)))

ArticleUrl(article) ==
    Get(article.url, MissingS, Get(article.link, MissingS, Get(article.href, MissingS, "")))

ArticleSource(article, query, idx) ==
    Source(Get(article.id, MissingId, SourceId("polza", query.title, query.category, 0, idx)),
           ArticleTitle(article, query),
           ArticleUrl(article))

\* an article whose handling raises inside the try block: it is no dict, or
\* Source(...) rejects its title (null)
ArticleRaises(article, query) ==
    \/ article.t # "dict"
    \/ /\ ArticleUrl(article) \notin {"", NullS}
       /\ ArticleTitle(article, query) = NullTitle

\* a filter that drops the null URLs alone
LinkNotNull(source) == source.link # NullS

HasLink(source) == source.link \notin {"", NullS}

\* the parse without articles[:limit]
ParseUntruncated(reply, query, limit) ==
    IF reply.kind \in {"nochoices", "nocontent"} THEN <<>>
    ELSE LET articles == SearchSourcesData(reply, query)
             n == Len(articles.items)
         IN  IF articles.t = "missing" THEN <<>>
             ELSE IF articles.t # "list" THEN <<>>
             ELSE IF \E k \in 1..n : ArticleRaises(articles.items[k], query) THEN <<>>
             ELSE SelectSeq([k \in 1..n |-> ArticleSource(articles.items[k], query, k - 1)],
                            HasLink)

_parse_llm_response(reply, query, limit) ==
    IF reply.kind \in {"nochoices", "nocontent"} THEN <<>>
    ELSE LET articles == SearchSourcesData(reply, query)
             n == Min(limit, Len(articles.items))
         IN  IF articles.t = "missing" THEN <<>>
             ELSE IF articles.t # "list" THEN <<>>
             ELSE IF \E k \in 1..n : ArticleRaises(articles.items[k], query) THEN <<>>
             ELSE SelectSeq([k \in 1..n |-> ArticleSource(articles.items[k], query, k - 1)],
                            HasLink)

\* ------------------------------------------- PolzaService.search_articles
\* the request sent without looking at the credential
SearchAlwaysRequests(api_key) == TRUE

\* issued: whether an HTTP request is sent
SearchIssuesRequest(api_key) == api_key

\* the search without response.raise_for_status()
SearchAnyStatus(api_key, reply, query, limit) ==
    IF ~api_key THEN <<>>
    ELSE IF reply.kind \in {"timeout", "connection", "badbody"} THEN <<>>
    ELSE _parse_llm_response(reply, query, limit)

search_articles(api_key, reply, query, limit) ==
    IF ~api_key THEN <<>>
    ELSE IF reply.kind \in {"timeout", "connection", "status", "badbody"} THEN <<>>
    ELSE _parse_llm_response(reply, query, limit)

\* search_articles_for_tasks: self.search_articles(query, limit=2)
BatchLimit == 2

\* the merge without seen_links
MergeAll(all_sources, articles) == all_sources \o articles

\* the merge of search_articles_for_tasks: append the articles whose link is
\* not in seen_links yet
RECURSIVE MergeUnique(_, _)
MergeUnique(all_sources, articles) ==
    IF articles = <<>> THEN all_sources
    ELSE IF \E k \in 1..Len(all_sources) : all_sources[k].link = Head(articles).link
           THEN MergeUnique(all_sources, Tail(articles))
           ELSE MergeUnique(Append(all_sources, Head(articles)), Tail(articles))

\* ------------------------------ PolzaService._parse_time_ranking_response
\* A justification is the class of its text, the slot word it names and the
\* number of sources it counts.
Justification(kind, slot, n) == [kind |-> kind, slot |-> slot, n |-> n]

RankResult(answer, sources, justification) ==
    [answer |-> answer, sources |-> sources, justification |-> justification]

\* {"answer": "afternoon", "sources": [], "justification": <failure class>}
RankDefault(kind) == RankResult("afternoon", JList(<<>>), Justification(kind, "", 0))

\* answer.lower()
Lower(answer) ==
    CASE answer = "Morning" -> "morning"
      [] OTHER -> answer

\* the key words that occur in the lowered answer
AnswerWords(answer) ==
    CASE answer \in {"morning", "in the morning"} -> {"morning"}
      [] answer = "afternoon" -> {"afternoon"}
      [] answer = "evening" -> {"evening"}
      [] answer = "evening, not morning" -> {"evening", "morning"}
      [] answer = "obed" -> {"obed"}
      [] answer = "vecherom" -> {"vecher"}
      [] answer = "utrom" -> {"utro"}
      [] OTHER -> {}

\* the answer passed on as the model wrote it
AnswerAsWritten(answer) == answer

\* a normalisation that knows the English words and the Russian words for
\* midday and day only
NormalizeEnglish(answer) ==
    IF answer \in {"morning", "afternoon", "evening"} THEN answer
    ELSE IF AnswerWords(answer) \cap {"morning"} # {} THEN "morning"
    ELSE IF AnswerWords(answer) \cap {"obed", "afternoon", "den"} # {} THEN "afternoon"
    ELSE IF AnswerWords(answer) \cap {"evening"} # {} THEN "evening"
    ELSE "afternoon"

NormalizeAnswer(answer) ==
    IF answer \in {"morning", "afternoon", "evening"} THEN answer
    ELSE IF AnswerWords(answer) \cap {"utro", "morning"} # {} THEN "morning"
    ELSE IF AnswerWords(answer) \cap {"obed", "afternoon", "den"} # {} THEN "afternoon"
    ELSE IF AnswerWords(answer) \cap {"vecher", "evening"} # {} THEN "evening"
    ELSE "afternoon"

\* answer_mapping.get(answer, "den")
answer_mapping(answer) ==
    CASE answer = "morning" -> MORNING
      [] answer = "afternoon" -> DAY
      [] answer = "evening" -> EVENING
      [] OTHER -> DAY

_parse_time_ranking_response(reply) ==
    IF reply.kind = "nochoices" THEN RankDefault("no_model_answer")
    ELSE IF reply.kind = "nocontent" THEN RankDefault("empty_answer")
    ELSE LET ranking_data == _extract_json_from_response(reply.content)
             raw == IF ranking_data.members THEN reply.payload.answer ELSE MissingS
             answer == NormalizeAnswer(Lower(Get(raw, MissingS, "afternoon")))
             got == IF ranking_data.members THEN reply.payload.sources ELSE JMissing
             sources == IF got.t = "missing" THEN JList(<<>>) ELSE got
         IN  IF Falsy(ranking_data) THEN RankDefault("unparseable")
             ELSE IF ranking_data.t # "dict" THEN RankDefault("processing_error")
             ELSE IF raw \in {NullS, "<num>"} THEN RankDefault("processing_error")
             ELSE IF ~HasLen(sources) THEN RankDefault("processing_error")
             ELSE RankResult(answer, sources,
                    IF Truthy(sources)
                      THEN Justification("ranked_with_sources", answer_mapping(answer),
                                         Len(sources.items))
                      ELSE Justification("ranked", answer_mapping(answer), 0))

\* ----------------------------------------- PolzaService.rank_task_by_time
RankIssuesRequest(api_key) == api_key

rank_task_by_time(api_key, reply) ==
    IF ~api_key THEN RankDefault("no_api_key")
    ELSE CASE reply.kind = "timeout" -> RankDefault("timeout")
           [] reply.kind = "connection" -> RankDefault("connection_error")
           [] reply.kind = "status" -> RankDefault("api_error")
           [] reply.kind = "badbody" -> RankDefault("json_error")
           [] OTHER ->
                LET result == _parse_time_ranking_response(reply)
                IN  IF HasLen(result.sources) THEN result
                    ELSE RankDefault("unexpected_error")

\* ---------------------------------------------------------------- models
Task(id, title, category, mood, preferred_time) ==
    [id |-> id, title |-> title, category |-> category, mood |-> mood,
     preferred_time |-> preferred_time]

UserProfile(chronotype, task_shifting_history, disliked_sources) ==
    [chronotype |-> chronotype, task_shifting_history |-> task_shifting_history,
     disliked_sources |-> disliked_sources]

PlanItem(task, time_block, justification) ==
    [task_id |-> task.id, task_title |-> task.title, task_category |-> task.category,
     task_mood |-> task.mood, time_block |-> time_block, justification |-> justification]

DayPlan(morning, day, evening, srcs, error_message) ==
    [morning |-> morning, day |-> day, evening |-> evening, sources |-> srcs,
     error_message |-> error_message]

EmptyDayPlan == DayPlan(<<>>, <<>>, <<>>, <<>>, None)

\* -------------------------------------- LLMService._determine_time_block
\* the history entry the second priority uses: the last one of the task's
\* list, when TimeBlock(last_pref) accepts it
HistoryOf(task, user_profile) ==
    IF task.id \in DOMAIN user_profile.task_shifting_history
      THEN user_profile.task_shifting_history[task.id]
      ELSE <<>>

UsesPreference(task) == task.preferred_time # None

\* the history branch without TimeBlock(last_pref)
UsesAnyHistory(task, user_profile) ==
    /\ ~UsesPreference(task)
    /\ HistoryOf(task, user_profile) # <<>>

UsesHistory(task, user_profile) ==
    /\ ~UsesPreference(task)
    /\ HistoryOf(task, user_profile) # <<>>
    /\ HistoryOf(task, user_profile)[Len(HistoryOf(task, user_profile))] \in TimeBlock

\* a cascade that asks the ranking endpoint before it reads the preference
CallsRankingFirst(task, user_profile) == TRUE

CallsRanking(task, user_profile) ==
    ~UsesPreference(task) /\ ~UsesHistory(task, user_profile)

\* answer_to_timeblock.get(answer, TimeBlock.DAY)
answer_to_timeblock(answer) ==
    CASE answer = "morning" -> MORNING
      [] answer = "evening" -> EVENING
      [] OTHER -> DAY

RankingTitle(source_data, idx) ==
    Get(source_data.title, MissingTitle, PlainTitle("Istochnik " \o ToString(idx + 1)))

RankingUrl(source_data) == Get(source_data.url, MissingS, "")

\* source_data.get raises for an item that is no dict; Source(...) rejects a
\* null title
RankingItemRaises(source_data, idx) ==
    \/ source_data.t # "dict"
    \/ /\ RankingUrl(source_data) \notin {"", NullS}
       /\ RankingTitle(source_data, idx) = NullTitle

\* the loop over ranking_result["sources"] raises: over the characters of a
\* string, over an item of the list
RankingSourcesRaise(sources_data) ==
    \/ sources_data.t = "str" /\ sources_data.items # <<>>
    \/ /\ sources_data.t = "list"
       /\ \E k \in 1..Len(sources_data.items) :
            RankingItemRaises(sources_data.items[k], k - 1)

RankingSources(task, sources_data) ==
    SelectSeq([k \in 1..Len(sources_data.items) |->
                 Source(SourceId("ranking", "", "", task.id, k - 1),
                        RankingTitle(sources_data.items[k], k - 1),
                        RankingUrl(sources_data.items[k]))],
              HasLink)

\* (time_block, justification, ranking_sources), or raised
Resolved(time_block, justification, ranking_sources) ==
    [raised |-> FALSE, time_block |-> time_block, justification |-> justification,
     ranking_sources |-> ranking_sources]
Raised == [raised |-> TRUE, time_block |-> DAY,
           justification |-> Justification("raised", "", 0), ranking_sources |-> <<>>]

\* the cascade with its first two priorities exchanged
HistoryBeforePreference(task, user_profile, ranking_result) ==
    LET history == HistoryOf(task, user_profile)
    IN  IF history # <<>> /\ history[Len(history)] \in TimeBlock
          THEN Resolved(history[Len(history)],
                        Justification("previous_choice", history[Len(history)], 0), <<>>)
        ELSE IF UsesPreference(task)
          THEN Resolved(task.preferred_time,
                        Justification("preference", task.preferred_time, 0), <<>>)
        ELSE IF RankingSourcesRaise(ranking_result.sources) THEN Raised
        ELSE Resolved(answer_to_timeblock(ranking_result.answer),
                      ranking_result.justification,
                      RankingSources(task, ranking_result.sources))

_determine_time_block(task, user_profile, ranking_result) ==
    IF UsesPreference(task)
      THEN Resolved(task.preferred_time,
                    Justification("preference", task.preferred_time, 0), <<>>)
    ELSE IF UsesHistory(task, user_profile)
      THEN LET history == HistoryOf(task, user_profile)
           IN  Resolved(history[Len(history)],
                        Justification("previous_choice", history[Len(history)], 0), <<>>)
    ELSE IF RankingSourcesRaise(ranking_result.sources) THEN Raised
    ELSE Resolved(answer_to_timeblock(ranking_result.answer),
                  ranking_result.justification,
                  RankingSources(task, ranking_result.sources))

\* ------------------------------------------------ LLMService.generate_plan
\* the articles of a task: those whose title contains the task's title or
\* category; failing that the first two of the pool
TaskArticles(task, pool) ==
    LET matching == SelectSeq(pool, LAMBDA s : IsSubstr(task.title, s.title)
                                               \/ IsSubstr(task.category, s.title))
    IN  IF matching # <<>> THEN matching
        ELSE SubSeq(pool, 1, Min(2, Len(pool)))

\* a justification that keeps the preamble alone when there are articles
ComposePreambleOnly(task_articles, time_justification) ==
    [articles |-> [k \in 1..Len(task_articles) |-> task_articles[k].title],
     base |-> IF task_articles # <<>> THEN Justification("", "", 0)
              ELSE time_justification]

\* justification_base + time_justification: the titles of the articles (the
\* preamble, absent when there are none) and the base justification
ComposeJustification(task_articles, time_justification) ==
    [articles |-> [k \in 1..Len(task_articles) |-> task_articles[k].title],
     base |-> time_justification]

\* ================================================================== state
VARIABLES
    api_key,          \* whether POLZA_AI_API_KEY is configured
    db_tasks,         \* table tasks, as get_tasks returns it (newest first)
    db_profile,       \* table user_profile (row 1)
    db_plans,         \* table plans
    db_sources,       \* table sources
    db_edit_history,  \* table edit_history
    next_id,          \* the next fresh task id (uuid4)
    pc,               \* where the running call stands
    caller,           \* who called LLMService.generate_plan
    gen_tasks,        \* generate_plan: tasks
    gen_profile,      \* generate_plan: user_profile
    gen_i,            \* generate_plan: index of the task at hand
    gen_sources,      \* generate_plan: sources
    plan_items,       \* generate_plan: plan_items
    found,            \* every list search_articles returned, concatenated
    log,              \* the client calls and HTTP requests of the generation
    resolutions,      \* what _determine_time_block did for each task so far
    result,           \* what the last PlannerService call returned
    ops,              \* PlannerService calls made so far
    input,            \* argument of the function under study
    output            \* its value

vars == <<api_key, db_tasks, db_profile, db_plans, db_sources, db_edit_history,
          next_id, pc, caller, gen_tasks, gen_profile, gen_i, gen_sources,
          plan_items, found, log, resolutions,
          result, ops, input, output>>

db_vars == <<db_tasks, db_profile, db_plans, db_sources, db_edit_history, next_id>>
gen_vars == <<caller, gen_tasks, gen_profile, gen_i, gen_sources, plan_items, found, log,
              resolutions>>
fn_vars == <<input, output>>

EmptyProfile == UserProfile(None, <<>>, <<>>)

NoResult == [op |-> "none", status |-> "none", plan |-> EmptyDayPlan]
Returned(op, status, plan) == [op |-> op, status |-> status, plan |-> plan]

\* the plan a route handler answers with when it has caught an exception or
\* found no task to plan
ErrorDayPlan == DayPlan(<<>>, <<>>, <<>>, <<>>, "generation failed, try again")

\* the route handlers that answer with a DayPlan
GENERATE == "POST /plan/generate"
REGENERATE == "POST /plan/regenerate"
UPDATE == "PUT /plan/update"
PlanHandlers == {GENERATE, REGENERATE, UPDATE}

\* a handler that answers a failed generation with the entries and citations
\* gathered before the failure, flagged as an error
OutcomeKeepsPartial(who, op, status, plan) ==
    IF who \notin PlanHandlers THEN Returned(op, status, plan)
    ELSE CASE status = "ok" /\ op = "generate_plan" -> Returned(who, "ok", plan)
           [] status = "ok" -> Returned(who, "None", EmptyDayPlan)
           [] OTHER -> Returned(who, "error",
                         DayPlan(SelectSeq(plan_items, LAMBDA item : item.time_block = MORNING),
                                 SelectSeq(plan_items, LAMBDA item : item.time_block = DAY),
                                 SelectSeq(plan_items, LAMBDA item : item.time_block = EVENING),
                                 gen_sources, ErrorDayPlan.error_message))

\* What the caller `who` of a PlannerService operation ends with.  A direct
\* caller gets the value or the exception.  A route handler returns the plan
\* of generate_plan, returns the None of update_task_time (status "None": no
\* plan), and turns every exception into ErrorDayPlan.
Outcome(who, op, status, plan) ==
    IF who \notin PlanHandlers THEN Returned(op, status, plan)
    ELSE CASE status = "ok" /\ op = "generate_plan" -> Returned(who, "ok", plan)
           [] status = "ok" -> Returned(who, "None", EmptyDayPlan)
           [] OTHER -> Returned(who, "error", ErrorDayPlan)

\* ------------------------------------------------------------ input sets
TitleRunTips == MkTitle("run tips", {"run"})
TitleSleep == PlainTitle("sleep science")
TitlePaper == PlainTitle("chronobiology paper")

JsonText == <<"{", "m", "}">>
FencedText == <<"x", "F", "{", "m", "}", "E">>

SearchOne == Reply("content", JsonText,
                   Payload(MissingS, JList(<<Item(TitleRunTips, "u1")>>)))
SearchTwo == Reply("content", FencedText,
                   Payload(MissingS, JList(<<Item(TitleSleep, "u2"), Item(TitlePaper, "u1")>>)))
SearchProse == Reply("content", <<"x", "u2">>, NoPayload)

RankMorning == Reply("content", JsonText,
                     Payload("morning", JList(<<Item(TitlePaper, "u1")>>)))
RankEvening == Reply("content", FencedText, Payload("evening", JList(<<>>)))
RankError == Reply("status", JsonText,
                   Payload("evening", JList(<<Item(TitlePaper, "u1")>>)))
RankBadItems == Reply("content", JsonText, Payload("morning", JList(<<NumItem>>)))
RankGarbled == Reply("content", <<"x">>, NoPayload)

\* replies that list a citation without a URL among citations that have one:
\* the key is absent, the value is empty, the value is null
SearchMixed == Reply("content", JsonText,
                     Payload(MissingS, JList(<<Item(TitleSleep, MissingS),
                                               Item(TitleRunTips, "u2")>>)))
RankMixed == Reply("content", JsonText,
                   Payload("evening", JList(<<Item(TitleSleep, ""), Item(TitlePaper, "u1"),
                                              Item(TitleSleep, NullS)>>)))

\* the replies of the endpoint during a generation
GenSearchReplies == {Fail("timeout"), SearchOne, SearchTwo, SearchProse}
GenRankReplies == {RankError, RankMorning, RankEvening, RankBadItems, RankGarbled}

\* the replies of the endpoint in the runs of the whole service
SvcSearchReplies == {Fail("timeout"), SearchOne}
SvcRankReplies == {RankError, RankMorning, RankBadItems}

\* the replies of the endpoint in the runs on a filled task store
StoreSearchReplies == {Fail("timeout"), SearchMixed}
StoreRankReplies == {RankMorning, RankMixed}

NoRequest == Fail("none")

\* TaskCreate bodies
RunTask == [title |-> "run", category |-> "sport", mood |-> "calm"]
NapTask == [title |-> "nap", category |-> "", mood |-> "tired"]
TaskInputs == {RunTask}

\* the ids of the stored or deleted tasks, and one id that was never stored
KnownIds == 1..next_id

\* ------------------------------------------------- database operations
\* INSERT OR REPLACE INTO tasks: the row gets a new created_at, so it is the
\* first row of get_tasks (ORDER BY created_at DESC)
\* INSERT OR IGNORE: a stored row is left as it is
save_task_if_absent(rows, task) ==
    IF \E k \in 1..Len(rows) : rows[k].id = task.id THEN rows
    ELSE <<task>> \o rows

save_task(rows, task) ==
    <<task>> \o SelectSeq(rows, LAMBDA t : t.id # task.id)

\* save_plan: delete the rows of the plan's tasks, insert one row per item
PlanRow(item) ==
    [task_id |-> item.task_id, time_block |-> item.time_block,
     justification |-> item.justification]

\* a save that inserts without deleting the old rows of the plan's tasks
save_plan_insert_only(rows, items) ==
    rows \o [k \in 1..Len(items) |-> PlanRow(items[k])]

save_plan(rows, items) ==
    SelectSeq(rows, LAMBDA r : \A k \in 1..Len(items) : items[k].task_id # r.task_id)
      \o [k \in 1..Len(items) |-> PlanRow(items[k])]

\* INSERT OR REPLACE INTO sources, for each source in turn
RECURSIVE save_sources(_, _)
save_sources(rows, srcs) ==
    IF srcs = <<>> THEN rows
    ELSE save_sources({r \in rows : r.id # Head(srcs).id} \cup {Head(srcs)}, Tail(srcs))

\* a grouping whose day list takes every item that is not a morning item
InBlockDayRest(items, block) ==
    SelectSeq(items, LAMBDA item : \/ item.time_block = block
                                   \/ block = DAY /\ item.time_block # MORNING)

\* a grouping that lists the entries of a block last task first
InBlockReversed(items, block) ==
    LET chosen == SelectSeq(items, LAMBDA item : item.time_block = block)
    IN  [k \in 1..Len(chosen) |-> chosen[Len(chosen) + 1 - k]]

InBlock(items, block) == SelectSeq(items, LAMBDA item : item.time_block = block)

\* --------------------------------------------------------------- initial
GenIdle ==
    /\ caller = "none"
    /\ gen_tasks = <<>>
    /\ gen_profile = EmptyProfile
    /\ gen_i = 1
    /\ gen_sources = <<>>
    /\ plan_items = <<>>
    /\ found = <<>>
    /\ log = <<>>
    /\ resolutions = <<>>

GenReset ==
    /\ caller' = "none"
    /\ gen_tasks' = <<>>
    /\ gen_profile' = EmptyProfile
    /\ gen_i' = 1
    /\ gen_sources' = <<>>
    /\ plan_items' = <<>>
    /\ found' = <<>>
    /\ log' = <<>>
    /\ resolutions' = <<>>

DbEmpty ==
    /\ db_tasks = <<>>
    /\ db_profile = EmptyProfile
    /\ db_plans = <<>>
    /\ db_sources = {}
    /\ db_edit_history = <<>>
    /\ next_id = 1

FnIdle == input = "none" /\ output = "none"

Init ==
    /\ api_key \in BOOLEAN
    /\ DbEmpty
    /\ pc = "idle"
    /\ GenIdle
    /\ result = NoResult
    /\ ops = 0
    /\ FnIdle

\* one more call of the service, while the run has calls left
Called == ops < MaxOps /\ ops' = ops + 1

\* ------------------------------------------------ PlannerService.create_task
create_task(task_data) ==
    /\ pc = "idle"
    /\ Called
    /\ db_tasks' = save_task(db_tasks,
                     Task(next_id, task_data.title, task_data.category, task_data.mood, None))
    /\ next_id' = next_id + 1
    /\ result' = Returned("create_task", "ok", EmptyDayPlan)
    /\ GenReset
    /\ UNCHANGED <<api_key, db_profile, db_plans, db_sources, db_edit_history, pc, fn_vars>>

\* ------------------------------------------- PlannerService.update_task_time
CountOf(history_of, value) ==
    LET n[ids \in SUBSET DOMAIN history_of] ==
          IF ids = {} THEN 0
          ELSE LET id == CHOOSE i \in ids : TRUE
               IN  Len(SelectSeq(history_of[id], LAMBDA time : time = value))
                     + n[ids \ {id}]
    IN  n[DOMAIN history_of]

\* PlannerService._update_chronotype: the chronotype to store
_update_chronotype(profile) ==
    LET morning_count == CountOf(profile.task_shifting_history, MORNING)
        evening_count == CountOf(profile.task_shifting_history, EVENING)
    IN  IF morning_count > evening_count + 2 THEN LARK
        ELSE IF evening_count > morning_count + 2 THEN OWL
        ELSE profile.chronotype

\* an update that writes the edit-history row before it looks the task up
TimeUpdateLogsFirst(who, task_id, new_time_block) ==
    /\ pc = "idle"
    /\ Called
    /\ db_edit_history' = Append(db_edit_history,
          [task_id |-> task_id, old_time_block |-> None, new_time_block |-> new_time_block])
    /\ IF \A k \in 1..Len(db_tasks) : db_tasks[k].id # task_id
         THEN /\ result' = Outcome(who, "update_task_time", "ValueError", EmptyDayPlan)
              /\ UNCHANGED <<db_tasks, db_profile, db_plans, db_sources, next_id>>
         ELSE LET task == db_tasks[CHOOSE k \in 1..Len(db_tasks) : db_tasks[k].id = task_id]
                  old == db_profile.task_shifting_history
                  history == IF task_id \in DOMAIN old THEN old[task_id] ELSE <<>>
                  appended == [id \in DOMAIN old \cup {task_id} |->
                                 IF id = task_id THEN Append(history, new_time_block)
                                 ELSE old[id]]
                  user_profile == [db_profile EXCEPT !.task_shifting_history = appended]
              IN  /\ db_tasks' = save_task(db_tasks,
                                   [task EXCEPT !.preferred_time = new_time_block])
                  /\ db_profile' = [user_profile EXCEPT
                                      !.chronotype = _update_chronotype(user_profile)]
                  /\ result' = Outcome(who, "update_task_time", "ok", EmptyDayPlan)
                  /\ UNCHANGED <<db_plans, db_sources, next_id>>
    /\ GenReset
    /\ UNCHANGED <<api_key, pc, fn_vars>>

TimeUpdate(who, task_id, new_time_block) ==
    /\ pc = "idle"
    /\ Called
    /\ IF \A k \in 1..Len(db_tasks) : db_tasks[k].id # task_id
         THEN /\ result' = Outcome(who, "update_task_time", "ValueError", EmptyDayPlan)
              /\ UNCHANGED db_vars
         ELSE LET task == db_tasks[CHOOSE k \in 1..Len(db_tasks) : db_tasks[k].id = task_id]
                  old == db_profile.task_shifting_history
                  history == IF task_id \in DOMAIN old THEN old[task_id] ELSE <<>>
                  appended == [id \in DOMAIN old \cup {task_id} |->
                                 IF id = task_id THEN Append(history, new_time_block)
                                 ELSE old[id]]
                  user_profile == [db_profile EXCEPT !.task_shifting_history = appended]
              IN  /\ db_tasks' = save_task(db_tasks,
                                   [task EXCEPT !.preferred_time = new_time_block])
                  /\ db_edit_history' = Append(db_edit_history,
                        [task_id |-> task_id, old_time_block |-> None,
                         new_time_block |-> new_time_block])
                  /\ db_profile' = [user_profile EXCEPT
                                      !.chronotype = _update_chronotype(user_profile)]
                  /\ result' = Outcome(who, "update_task_time", "ok", EmptyDayPlan)
                  /\ UNCHANGED <<db_plans, db_sources, next_id>>
    /\ GenReset
    /\ UNCHANGED <<api_key, pc, fn_vars>>

update_task_time(task_id, new_time_block) ==
    TimeUpdate("planner", task_id, new_time_block)

\* ------------------------------------------------ PlannerService.delete_task
\* a deletion that also drops the task's shift history from the profile
delete_task_and_history(task_id) ==
    /\ pc = "idle"
    /\ Called
    /\ IF \A k \in 1..Len(db_tasks) : db_tasks[k].id # task_id
         THEN /\ result' = Returned("delete_task", "ValueError", EmptyDayPlan)
              /\ UNCHANGED db_vars
         ELSE /\ db_plans' = SelectSeq(db_plans, LAMBDA r : r.task_id # task_id)
              /\ db_tasks' = SelectSeq(db_tasks, LAMBDA t : t.id # task_id)
              /\ db_profile' = [db_profile EXCEPT !.task_shifting_history =
                                  [id \in DOMAIN @ \ {task_id} |-> @[id]]]
              /\ result' = Returned("delete_task", "ok", EmptyDayPlan)
              /\ UNCHANGED <<db_sources, db_edit_history, next_id>>
    /\ GenReset
    /\ UNCHANGED <<api_key, pc, fn_vars>>

\* Database.delete_task
delete_task(task_id) ==
    /\ pc = "idle"
    /\ Called
    /\ IF \A k \in 1..Len(db_tasks) : db_tasks[k].id # task_id
         THEN /\ result' = Returned("delete_task", "ValueError", EmptyDayPlan)
              /\ UNCHANGED db_vars
         ELSE /\ db_plans' = SelectSeq(db_plans, LAMBDA r : r.task_id # task_id)
              /\ db_tasks' = SelectSeq(db_tasks, LAMBDA t : t.id # task_id)
              /\ result' = Returned("delete_task", "ok", EmptyDayPlan)
              /\ UNCHANGED <<db_profile, db_sources, db_edit_history, next_id>>
    /\ GenReset
    /\ UNCHANGED <<api_key, pc, fn_vars>>

\* ---------------------------------------- PlannerService.mark_source_untrusted
SourceIdsToDistrust == {"source1"}

mark_source_untrusted(source_id) ==
    /\ pc = "idle"
    /\ Called
    /\ db_profile' = [db_profile EXCEPT !.disliked_sources =
                        IF \E k \in 1..Len(@) : @[k] = source_id THEN @
                        ELSE Append(@, source_id)]
    /\ result' = Returned("mark_source_untrusted", "ok", EmptyDayPlan)
    /\ GenReset
    /\ UNCHANGED <<api_key, db_tasks, db_plans, db_sources, db_edit_history, next_id,
                   pc, fn_vars>>

\* ---------------------------------------------- PlannerService.generate_plan
\* task_ids: Optional[List[str]]; given = FALSE is None
TaskIdLists == {[given |-> FALSE, ids |-> {}]}
                 \cup {[given |-> TRUE, ids |-> ids] : ids \in SUBSET (1..next_id)}

SelectedTasks(all_tasks, task_ids) ==
    IF ~task_ids.given \/ task_ids.ids = {} THEN all_tasks
    ELSE SelectSeq(all_tasks, LAMBDA t : t.id \in task_ids.ids)

\* the body of generate_plan, for the caller `who`, once the tasks are fetched
Generate(who, tasks) ==
    IF tasks = <<>>
      THEN /\ result' = Outcome(who, "generate_plan", "ok", EmptyDayPlan)
           /\ GenReset
           /\ pc' = "idle"
      ELSE /\ result' = NoResult
           /\ pc' = "search"
           /\ caller' = who
           /\ gen_tasks' = tasks
           /\ gen_profile' = db_profile
           /\ gen_i' = 1
           /\ gen_sources' = <<>>
           /\ plan_items' = <<>>
           /\ found' = <<>>
           /\ log' = <<>>
           /\ resolutions' = <<>>

generate_plan(task_ids) ==
    /\ pc = "idle"
    /\ Called
    /\ Generate("planner", SelectedTasks(db_tasks, task_ids))
    /\ UNCHANGED <<api_key, db_vars, fn_vars>>

\* ------------------- LLMService.generate_plan, step 1 (one task's search)
\* PolzaService.search_articles_for_tasks: one search_articles call
LogEntry(op, task) == [op |-> op, task |-> task.id]

\* an HTTP request and the outcome it had
Post(op, task, reply) == [op |-> op, task |-> task.id, reply |-> reply]

\* the requests of a search that posts again after a failed request
SearchPostsRetried(task, reply) ==
    IF ~SearchIssuesRequest(api_key) THEN <<>>
    ELSE IF reply.kind = "content" THEN <<Post("POST search", task, reply)>>
    ELSE <<Post("POST search", task, reply), Post("POST search", task, reply)>>

\* the HTTP requests of one search_articles call
SearchPosts(task, reply) ==
    IF SearchIssuesRequest(api_key) THEN <<Post("POST search", task, reply)>> ELSE <<>>

\* the HTTP requests of one rank_task_by_time call
RankPosts(task, reply) ==
    IF RankIssuesRequest(api_key) THEN <<Post("POST rank", task, reply)>> ELSE <<>>

\* a search that hands over to the plan items after the first task's search
SearchFirstOnly(replies) ==
    /\ pc = "search"
    /\ \E reply \in (IF SearchIssuesRequest(api_key) THEN replies ELSE {NoRequest}) :
         LET task == gen_tasks[gen_i]
             articles == search_articles(api_key, reply, Query(task), BatchLimit)
         IN  /\ gen_sources' = MergeUnique(gen_sources, articles)
             /\ found' = found \o articles
             /\ log' = log \o <<LogEntry("search_articles", task)>>
                           \o SearchPosts(task, reply)
    /\ gen_i' = 1
    /\ pc' = "plan"
    /\ UNCHANGED <<api_key, db_vars, caller, gen_tasks, gen_profile, plan_items,
                   resolutions, result, ops, fn_vars>>

SearchStep(replies) ==
    /\ pc = "search"
    /\ \E reply \in (IF SearchIssuesRequest(api_key) THEN replies ELSE {NoRequest}) :
         LET task == gen_tasks[gen_i]
             articles == search_articles(api_key, reply, Query(task), BatchLimit)
         IN  /\ gen_sources' = MergeUnique(gen_sources, articles)
             /\ found' = found \o articles
             /\ log' = log \o <<LogEntry("search_articles", task)>>
                           \o SearchPosts(task, reply)
    /\ IF gen_i < Len(gen_tasks)
         THEN gen_i' = gen_i + 1 /\ pc' = "search"
         ELSE gen_i' = 1 /\ pc' = "plan"
    /\ UNCHANGED <<api_key, db_vars, caller, gen_tasks, gen_profile, plan_items,
                   resolutions, result, ops, fn_vars>>

\* ------------------ LLMService.generate_plan, step 2 (one task's plan item)
\* the tail of PlannerService.generate_plan: save, group by block
PlannerReturns(items, srcs) ==
    /\ db_plans' = save_plan(db_plans, items)
    /\ db_sources' = save_sources(db_sources, srcs)
    /\ result' = Outcome(caller, "generate_plan", "ok",
                   DayPlan(InBlock(items, MORNING), InBlock(items, DAY),
                           InBlock(items, EVENING), srcs, None))
    /\ UNCHANGED <<db_tasks, db_profile, db_edit_history, next_id>>

PlanStep(replies) ==
    /\ pc = "plan"
    /\ LET task == gen_tasks[gen_i]
           ranks == CallsRanking(task, gen_profile)
       IN  \E reply \in (IF ranks /\ RankIssuesRequest(api_key) THEN replies ELSE {NoRequest}) :
             LET task_articles == TaskArticles(task, gen_sources)
                 ranking_result == rank_task_by_time(api_key, reply)
                 resolved == _determine_time_block(task, gen_profile, ranking_result)
                 items == Append(plan_items,
                            PlanItem(task, resolved.time_block,
                              ComposeJustification(task_articles, resolved.justification)))
                 srcs == gen_sources \o resolved.ranking_sources
             IN  /\ resolutions' = Append(resolutions,
                        [task_id |-> task.id, ranked |-> ranks,
                         ranking_result |-> ranking_result, returned |-> resolved])
                 /\ log' = log \o (IF ranks THEN <<LogEntry("rank_task_by_time", task)>>
                                                    \o RankPosts(task, reply)
                                            ELSE <<>>)
                 /\ IF resolved.raised
                      THEN /\ UNCHANGED <<gen_sources, plan_items, gen_i, db_vars>>
                           /\ IF caller # "llm"
                                THEN /\ pc' = "idle"
                                     /\ result' = Outcome(caller, "generate_plan", "raised",
                                                          EmptyDayPlan)
                                ELSE /\ pc' = "raised"
                                     /\ UNCHANGED result
                      ELSE /\ gen_sources' = srcs
                           /\ plan_items' = items
                           /\ IF gen_i < Len(gen_tasks)
                                THEN /\ gen_i' = gen_i + 1
                                     /\ pc' = "plan"
                                     /\ UNCHANGED <<result, db_vars>>
                                ELSE /\ gen_i' = gen_i
                                     /\ IF caller # "llm"
                                          THEN /\ pc' = "idle"
                                               /\ PlannerReturns(items, srcs)
                                          ELSE /\ pc' = "returned"
                                               /\ UNCHANGED <<result, db_vars>>
    /\ UNCHANGED <<api_key, caller, gen_tasks, gen_profile, found, ops, fn_vars>>

\* ----------------------------------------------------------- PlannerService
Next ==
    \/ \E task_data \in TaskInputs : create_task(task_data)
    \/ \E task_id \in KnownIds, block \in TimeBlock : update_task_time(task_id, block)
    \/ \E task_id \in KnownIds : delete_task(task_id)
    \/ \E source_id \in SourceIdsToDistrust : mark_source_untrusted(source_id)
    \/ \E task_ids \in TaskIdLists : generate_plan(task_ids)
    \/ SearchStep(SvcSearchReplies)
    \/ PlanStep(SvcRankReplies)

Spec == Init /\ [][Next]_vars

\* ============================================ the manual edits of one task
\* PlannerService with a task already stored, and the operations on the tasks
\* and their shift histories
ShiftInit ==
    /\ api_key \in BOOLEAN
    /\ db_tasks = <<Task(1, RunTask.title, RunTask.category, RunTask.mood, None)>>
    /\ db_profile = EmptyProfile
    /\ db_plans = <<>>
    /\ db_sources = {}
    /\ db_edit_history = <<>>
    /\ next_id = 2
    /\ pc = "idle"
    /\ GenIdle
    /\ result = Returned("create_task", "ok", EmptyDayPlan)
    /\ ops = 0
    /\ FnIdle

ShiftNext ==
    \/ \E task_data \in TaskInputs : create_task(task_data)
    \/ \E task_id \in KnownIds, block \in TimeBlock : update_task_time(task_id, block)
    \/ \E task_id \in KnownIds : delete_task(task_id)

ShiftSpec == ShiftInit /\ [][ShiftNext]_vars

\* ========================================== the plans of a filled store
\* PlannerService with two tasks already stored (the second created last),
\* and the operations on the stored plans and citations
StoreInit ==
    /\ api_key \in BOOLEAN
    /\ db_tasks = <<Task(2, RunTask.title, RunTask.category, RunTask.mood, None),
                    Task(1, RunTask.title, RunTask.category, RunTask.mood, None)>>
    /\ db_profile = EmptyProfile
    /\ db_plans = <<>>
    /\ db_sources = {}
    /\ db_edit_history = <<>>
    /\ next_id = 3
    /\ pc = "idle"
    /\ GenIdle
    /\ result = Returned("create_task", "ok", EmptyDayPlan)
    /\ ops = 0
    /\ FnIdle

StoreNext ==
    \/ \E task_ids \in TaskIdLists : generate_plan(task_ids)
    \/ \E task_id \in KnownIds : delete_task(task_id)
    \/ SearchStep(StoreSearchReplies)
    \/ PlanStep(StoreRankReplies)

StoreSpec == StoreInit /\ [][StoreNext]_vars

\* ===================================================== the route handlers
\* one more request to a handler, while the run has requests left
Served == ops < MaxCalls

\* PlanRequest.tasks
Requests == {<<>>, <<RunTask>>, <<RunTask, NapTask>>}

\* PlannerService.create_task for each task of the request in turn; saved[k]
\* tells whether Database.save_task stored the k-th one or raised ValueError,
\* which the handler logs and skips
\* a creation loop in which every save_task stores its task
CreateAllStored(rows, id, tasks, saved) ==
    [rows |-> [k \in 1..Len(tasks) |->
                 LET t == tasks[Len(tasks) + 1 - k]
                 IN  Task(id + Len(tasks) - k, t.title, t.category, t.mood, None)] \o rows,
     next_id |-> id + Len(tasks)]

RECURSIVE CreateEach(_, _, _, _)
CreateEach(rows, id, tasks, saved) ==
    IF tasks = <<>> THEN [rows |-> rows, next_id |-> id]
    ELSE IF Head(saved)
           THEN CreateEach(save_task(rows, Task(id, Head(tasks).title, Head(tasks).category,
                                                Head(tasks).mood, None)),
                           id + 1, Tail(tasks), Tail(saved))
           ELSE CreateEach(rows, id, Tail(tasks), Tail(saved))

\* POST /plan/generate
route_generate_plan(request, saved) ==
    /\ pc = "idle"
    /\ Served
    /\ Called
    /\ input' = [tasks |-> request, saved |-> saved, stored |-> Len(db_tasks)]
    /\ LET all_tasks == db_tasks
           creates == all_tasks = <<>> /\ request # <<>>
           created == IF creates THEN CreateEach(db_tasks, next_id, request, saved)
                      ELSE [rows |-> db_tasks, next_id |-> next_id]
           task_ids == {created.rows[k].id : k \in 1..Len(created.rows)}
       IN  /\ db_tasks' = created.rows
           /\ next_id' = created.next_id
           /\ IF task_ids = {}
                THEN /\ result' = Outcome(GENERATE, "generate_plan", "no tasks", EmptyDayPlan)
                     /\ GenReset
                     /\ pc' = "idle"
                ELSE Generate(GENERATE, SelectedTasks(created.rows,
                                          [given |-> TRUE, ids |-> task_ids]))
    /\ UNCHANGED <<api_key, db_profile, db_plans, db_sources, db_edit_history, output>>

\* POST /plan/regenerate
regenerate_plan ==
    /\ pc = "idle"
    /\ Served
    /\ Called
    /\ Generate(REGENERATE, SelectedTasks(db_tasks, [given |-> FALSE, ids |-> {}]))
    /\ UNCHANGED <<api_key, db_vars, fn_vars>>

\* PUT /plan/update
update_plan(update) ==
    /\ Served
    /\ TimeUpdate(UPDATE, update.task_id, update.new_time_block)

\* POST /tasks: HTTP 400 when PlannerService.create_task raises
route_create_task(task, saved) ==
    /\ Served
    /\ IF saved THEN create_task(task)
       ELSE /\ pc = "idle"
            /\ Called
            /\ result' = Returned("create_task", "ValueError", EmptyDayPlan)
            /\ GenReset
            /\ UNCHANGED <<api_key, db_vars, pc, fn_vars>>

\* DELETE /tasks/{task_id}: HTTP 404 when PlannerService.delete_task raises
route_delete_task(task_id) == Served /\ delete_task(task_id)

ApiNext ==
    \/ \E task \in TaskInputs, saved \in BOOLEAN : route_create_task(task, saved)
    \/ \E task_id \in KnownIds : route_delete_task(task_id)
    \/ \E request \in Requests : \E saved \in [1..Len(request) -> BOOLEAN] :
         route_generate_plan(request, saved)
    \/ regenerate_plan
    \/ \E task_id \in KnownIds, block \in TimeBlock :
         update_plan([task_id |-> task_id, new_time_block |-> block])
    \/ SearchStep(SvcSearchReplies)
    \/ PlanStep(SvcRankReplies)

ApiSpec == Init /\ [][ApiNext]_vars

\* ============================ LLMService.generate_plan(tasks, user_profile)
\* called directly, with every profile a caller can pass
TaskKinds == {"plain", "preferred", "shifted", "garbled"}

KindPreference(kind) == IF kind = "preferred" THEN EVENING ELSE None

KindHistory(kind) ==
    CASE kind = "plain" -> <<>>
      [] kind = "preferred" -> <<MORNING>>
      [] kind = "shifted" -> <<EVENING, MORNING>>
      [] kind = "garbled" -> <<"noon">>

LlmTask(id, kind) ==
    LET data == IF id % 2 = 1 THEN RunTask ELSE NapTask
    IN  Task(id, data.title, data.category, data.mood, KindPreference(kind))

LlmInit ==
    /\ api_key \in BOOLEAN
    /\ DbEmpty
    /\ pc = "search"
    /\ caller = "llm"
    /\ \E n \in 1..MaxTasks : \E kinds \in [1..n -> TaskKinds] :
         /\ gen_tasks = [id \in 1..n |-> LlmTask(id, kinds[id])]
         /\ gen_profile = UserProfile(None,
                            [id \in {i \in 1..n : kinds[i] # "plain"} |-> KindHistory(kinds[id])],
                            <<>>)
    /\ gen_i = 1
    /\ gen_sources = <<>>
    /\ plan_items = <<>>
    /\ found = <<>>
    /\ log = <<>>
    /\ resolutions = <<>>
    /\ result = NoResult
    /\ ops = 0
    /\ FnIdle

LlmNext ==
    \/ SearchStep(GenSearchReplies)
    \/ PlanStep(GenRankReplies)

LlmSpec == LlmInit /\ [][LlmNext]_vars

\* ===================================== the functions on their own inputs
Idle ==
    /\ DbEmpty
    /\ GenIdle
    /\ result = NoResult
    /\ ops = 0

FnCall(name, value) ==
    /\ pc = name
    /\ output' = value
    /\ pc' = "done"
    /\ UNCHANGED <<api_key, db_vars, gen_vars, result, ops, input>>

\* ----------------------------------- _extract_json_from_response(content)
ExtractTokens == {"F", "E", "{", "}", "m", "n", "x"}

Texts(tokens, max) == UNION {[1..n -> tokens] : n \in 0..max}

ExtractInit ==
    /\ api_key = TRUE
    /\ Idle
    /\ pc = "extract"
    /\ input \in Texts(ExtractTokens, MaxLen)
    /\ output = "none"

Extract == FnCall("extract", _extract_json_from_response(input))

ExtractSpec == ExtractInit /\ [][Extract]_vars

\* ---------------------------------------------- rank_task_by_time(keyword)
FailureKinds == {"timeout", "connection", "status", "badbody", "nochoices", "nocontent"}

EmptyObject == <<"{", "}">>
OtherKeys == <<"{", "{", "}", "}">>
Truncated == <<"{", "m">>
BrokenFence == <<"F", "{", "m", "}", "x", "}", "E">>

RankContents == {JsonText, FencedText, <<"x">>, <<"n">>, EmptyObject, OtherKeys,
                 Truncated, BrokenFence}

Answers == {"morning", "afternoon", "evening", "Morning", "in the morning",
            "evening, not morning", "obed", "vecherom", "utrom", "noon",
            MissingS, NullS, "<num>"}

RankSourcesValues ==
    {JMissing, JVal("null", <<>>), JVal("num", <<>>), JStr(<<"s", "e", "e">>), JList(<<>>),
     JList(<<Item(TitlePaper, "u1")>>),
     JList(<<Item(TitlePaper, ""), Item(MissingTitle, "u2")>>),
     JList(<<Item(TitleSleep, NullS), Item(TitlePaper, "u1"), Item(TitleSleep, "u1")>>),
     JList(<<NumItem>>),
     JList(<<Item(NullTitle, "u1")>>)}

RankInputs ==
    {Fail(kind) : kind \in FailureKinds}
      \cup {Reply("status", JsonText, Payload("morning", JList(<<Item(TitlePaper, "u1")>>)))}
      \cup {Reply("content", content, Payload(answer, srcs)) :
              content \in RankContents, answer \in Answers, srcs \in RankSourcesValues}

RankInit ==
    /\ api_key \in BOOLEAN
    /\ Idle
    /\ pc = "rank"
    /\ input \in RankInputs
    /\ output = "none"

Rank == FnCall("rank", rank_task_by_time(api_key, input))

RankSpec == RankInit /\ [][Rank]_vars

\* ------------------------------------------- search_articles(query, limit)
SearchContents == {JsonText, FencedText, <<"x">>, <<"n">>, EmptyObject, OtherKeys,
                   Truncated, BrokenFence, <<"x", "u1">>, <<"u1", "x", "u2", "u1">>,
                   <<"x", "u1", "u2", "u1", "u2">>}

NamedItem == [Item(MissingTitle, MissingS) EXCEPT !.name = TitleSleep, !.link = "u2"]
HrefItem == [Item(MissingTitle, MissingS) EXCEPT !.href = "u3",
                                                 !.id = SourceId("given", "a1", "", 0, 0)]

SearchSourcesValues ==
    {JMissing, JVal("null", <<>>), JVal("num", <<>>), JStr(<<"s", "e", "e">>), JList(<<>>),
     JList(<<Item(TitleRunTips, "u1")>>),
     JList(<<Item(TitleRunTips, "u1"), Item(TitleSleep, "u2"), Item(TitlePaper, "u3")>>),
     JList(<<Item(TitleRunTips, "u1"), Item(TitleSleep, "u1")>>),
     JList(<<Item(TitlePaper, ""), NamedItem, HrefItem>>),
     JList(<<Item(TitleSleep, NullS), Item(MissingTitle, "u2")>>),
     JList(<<Item(TitleRunTips, "u1"), NumItem>>),
     JList(<<Item(TitleRunTips, "u1"), Item(TitleSleep, "u2"), NumItem>>),
     JList(<<Item(TitleRunTips, "u1"), Item(NullTitle, "u2")>>)}

SearchInputs ==
    {[reply |-> reply, query |-> query, limit |-> limit] :
        reply \in {Fail(kind) : kind \in FailureKinds}
                    \cup {Reply("status", JsonText,
                                Payload(MissingS, JList(<<Item(TitleRunTips, "u1")>>)))}
                    \cup {Reply("content", content, Payload(MissingS, srcs)) :
                            content \in SearchContents, srcs \in SearchSourcesValues},
        query \in {Query(RunTask), Query(NapTask)},
        limit \in 1..3}

SearchInit ==
    /\ api_key \in BOOLEAN
    /\ Idle
    /\ pc = "search_articles"
    /\ input \in SearchInputs
    /\ output = "none"

Search == FnCall("search_articles",
                 search_articles(api_key, input.reply, input.query, input.limit))

SearchSpec == SearchInit /\ [][Search]_vars

\* ================================================================ properties
\* the number of calls of rank_task_by_time made for a task
RankCalls(task_id) ==
    Cardinality({k \in 1..Len(log) :
                   log[k] = [op |-> "rank_task_by_time", task |-> task_id]})

\* the last entry of the shifting history of the k-th task, None without one
LastShift(k) ==
    LET hist == gen_profile.task_shifting_history
        id == gen_tasks[k].id
    IN  IF id \in DOMAIN hist /\ hist[id] # <<>> THEN hist[id][Len(hist[id])] ELSE None

SlotOfAnswer(answer) ==
    CASE answer = "morning" -> "utro"
      [] answer = "afternoon" -> "den"
      [] answer = "evening" -> "vecher"

NoDuplicateLinks(srcs) ==
    \A i, j \in 1..Len(srcs) : srcs[i].link = srcs[j].link => i = j

\* C1: a task whose preferred time is set is given that slot and an empty list
\* of ranking citations, whatever its shifting history holds and whatever the
\* ranking service would answer, and rank_task_by_time is not called for it.
C1_PreferenceWins ==
    \A k \in 1..Len(resolutions) :
        gen_tasks[k].preferred_time # None =>
            /\ resolutions[k].task_id = gen_tasks[k].id
            /\ ~resolutions[k].returned.raised
            /\ resolutions[k].returned.time_block = gen_tasks[k].preferred_time
            /\ resolutions[k].returned.ranking_sources = <<>>
            /\ ~resolutions[k].ranked
            /\ RankCalls(gen_tasks[k].id) = 0

\* a generation with the credential set has resolved a task whose preferred
\* slot (evening) differs from the last entry of its history (morning)
C1_Witness ==
    /\ pc = "returned"
    /\ api_key
    /\ \E k \in 1..Len(resolutions) :
         /\ gen_tasks[k].preferred_time = "vecher"
         /\ LastShift(k) = "utro"
         /\ resolutions[k].returned.time_block = "vecher"

\* C2: for a task with no preferred time and a non-empty shifting history, a
\* last entry that is a slot value is the slot returned, with no ranking call;
\* a last entry that is no slot value is not fatal: rank_task_by_time is called
\* once for the task and the slot returned is the one its answer maps to.
C2_HistoryThenRanking ==
    \A k \in 1..Len(resolutions) :
        (gen_tasks[k].preferred_time = None /\ LastShift(k) # None) =>
            IF LastShift(k) \in {"utro", "den", "vecher"}
              THEN /\ ~resolutions[k].returned.raised
                   /\ resolutions[k].returned.time_block = LastShift(k)
                   /\ resolutions[k].returned.ranking_sources = <<>>
                   /\ RankCalls(gen_tasks[k].id) = 0
              ELSE /\ RankCalls(gen_tasks[k].id) = 1
                   /\ ~resolutions[k].returned.raised =>
                        /\ resolutions[k].returned.time_block
                             = SlotOfAnswer(resolutions[k].ranking_result.answer)
                        /\ resolutions[k].returned.justification
                             = resolutions[k].ranking_result.justification
                   \* a failure at this task comes from the ranking reply's
                   \* sources, never from the history entry
                   /\ resolutions[k].returned.raised =>
                        \E j \in 1..Len(resolutions[k].ranking_result.sources.items) :
                            resolutions[k].ranking_result.sources.items[j].t # "dict"

\* one generation resolved a task from the valid last entry of its history and
\* another from the ranking answer (evening) after an invalid last entry
C2_Witness ==
    /\ pc = "returned"
    /\ api_key
    /\ \E k, j \in 1..Len(resolutions) :
         /\ gen_tasks[k].preferred_time = None
         /\ LastShift(k) = "utro"
         /\ resolutions[k].returned.time_block = "utro"
         /\ gen_tasks[j].preferred_time = None
         /\ LastShift(j) = "noon"
         /\ resolutions[j].ranking_result.answer = "evening"
         /\ resolutions[j].returned.time_block = "vecher"

\* C3 (as claimed): the citation list of a generated plan holds no two
\* citations with the same URL.
C3_PlanCitationsDistinct ==
    (result.op = "generate_plan" /\ result.status = "ok") =>
        NoDuplicateLinks(result.plan.sources)

\* C4: every task the plan was generated for appears exactly once in the union
\* of the plan's morning, day and evening lists, and nothing else appears.
C4_EachTaskOnce ==
    (result.op = "generate_plan" /\ result.status = "ok" /\ gen_tasks # <<>>) =>
        LET all == result.plan.morning \o result.plan.day \o result.plan.evening
        IN  /\ \A k \in 1..Len(gen_tasks) :
                 Cardinality({j \in 1..Len(all) : all[j].task_id = gen_tasks[k].id}) = 1
            /\ Len(all) = Len(gen_tasks)
            /\ \A j \in 1..Len(result.plan.morning) :
                 result.plan.morning[j].time_block = "utro"
            /\ \A j \in 1..Len(result.plan.day) : result.plan.day[j].time_block = "den"
            /\ \A j \in 1..Len(result.plan.evening) :
                 result.plan.evening[j].time_block = "vecher"

\* a plan for two tasks that has an evening item and an item of another block
C4_Witness ==
    /\ result.op = "generate_plan"
    /\ result.status = "ok"
    /\ Len(gen_tasks) = 2
    /\ Len(result.plan.evening) = 1
    /\ Len(result.plan.morning) + Len(result.plan.day) = 1

\* C5 (as claimed): LLMService.generate_plan returns normally whatever the
\* endpoint replies, a ranking reply whose "sources" items are of any JSON type
\* included: no exception leaves it.
C5_GenerationNeverRaises == pc # "raised"

\* the failure class a justification has to name for an outcome of the call,
\* "" for an outcome the call survives
C6_FailureClass ==
    IF ~api_key THEN "no_api_key"
    ELSE CASE input.kind = "timeout" -> "timeout"
           [] input.kind = "connection" -> "connection_error"
           [] input.kind = "status" -> "api_error"
           [] input.kind = "nochoices" -> "no_model_answer"
           [] input.kind = "nocontent" -> "empty_answer"
           [] input.kind = "content" /\ input.content \in {<<"x">>, <<"{", "m">>}
                -> "unparseable"
           [] OTHER -> ""

\* C6: rank_task_by_time always returns a record of the three fields answer,
\* sources and justification with answer one of morning, afternoon, evening;
\* on a missing credential, a timeout, a connection failure, a non-success
\* status, missing choices, empty content or unparseable content the answer is
\* afternoon, the sources are empty and the justification names that failure.
C6_RankingAlwaysAnswers ==
    pc = "done" =>
        /\ DOMAIN output = {"answer", "sources", "justification"}
        /\ output.answer \in {"morning", "afternoon", "evening"}
        /\ output.sources.t \in {"list", "str"}
        /\ C6_FailureClass # "" =>
             /\ output.answer = "afternoon"
             /\ output.sources = [t |-> "list", items |-> <<>>]
             /\ output.justification.kind = C6_FailureClass

\* the call has answered a reply whose content cannot be parsed, and one whose
\* answer needed normalising
C6_Witness ==
    /\ pc = "done"
    /\ api_key
    /\ \/ input.kind = "content" /\ input.content = <<"x">>
          /\ output.justification.kind = "unparseable"
       \/ input.kind = "content" /\ input.content = <<"{", "m", "}">>
          /\ input.payload.answer = "vecherom" /\ output.answer = "evening"

C8_NoUrlInContent ==
    /\ \A p \in 1..Len(input.reply.content) : input.reply.content[p] \notin {"u1", "u2"}
    /\ \/ \A p \in 1..Len(input.reply.content) : input.reply.content[p] # "m"
       \/ input.reply.payload.sources.t # "list"
       \/ \A k \in 1..Len(input.reply.payload.sources.items) :
            LET item == input.reply.payload.sources.items[k]
            IN  item.t = "dict" =>
                  /\ item.url \in {"", "<missing>", "<null>"}
                  /\ item.link \in {"", "<missing>", "<null>"}
                  /\ item.href \in {"", "<missing>", "<null>"}

C9_NextStrategyTried ==
    (pc = "done"
       /\ \/ BraceGroup(input) # <<>> /\ json_loads(BraceGroup(input)) # JError
          \/ json_loads(input) # JError) =>
        output # JNone

\* the searches made so far: one call per task, in the order of the tasks
C10_SearchCalls ==
    SelectSeq(log, LAMBDA e : e.op = "search_articles")

\* the index in `found` of the first citation with the link
C10_First(link) ==
    CHOOSE i \in 1..Len(found) :
        /\ found[i].link = link
        /\ \A j \in 1..(i - 1) : found[j].link # link

\* C10: search_articles_for_tasks calls search_articles once per task in task
\* order, and its result holds one citation per distinct URL of the per-task
\* results: the first one seen, in the order first seen.
C10_BatchFirstSeen ==
    (pc = "search" \/ (pc = "plan" /\ resolutions = <<>>)) =>
        /\ LET n == IF pc = "plan" THEN Len(gen_tasks) ELSE gen_i - 1
           IN  C10_SearchCalls = [k \in 1..n |-> [op |-> "search_articles",
                                                  task |-> gen_tasks[k].id]]
        /\ NoDuplicateLinks(gen_sources)
        /\ \A i \in 1..Len(found) : \E k \in 1..Len(gen_sources) :
             gen_sources[k].link = found[i].link
        /\ \A k \in 1..Len(gen_sources) :
             /\ \E i \in 1..Len(found) : found[i].link = gen_sources[k].link
             /\ gen_sources[k] = found[C10_First(gen_sources[k].link)]
        /\ \A k, m \in 1..Len(gen_sources) :
             k < m => C10_First(gen_sources[k].link) < C10_First(gen_sources[m].link)

\* the batch is over and two tasks' results held the same URL under two titles
C10_Witness ==
    /\ pc = "plan"
    /\ resolutions = <<>>
    /\ Len(gen_tasks) = 2
    /\ \E i, j \in 1..Len(found) :
         /\ i < j
         /\ found[i].link = found[j].link
         /\ found[i].title # found[j].title
    /\ Len(gen_sources) = 2
\* ------------------------------------------------------------------ C11
\* the plan has no entries in any slot and no citations
NoContent(plan) ==
    /\ plan.morning = <<>>
    /\ plan.day = <<>>
    /\ plan.evening = <<>>
    /\ plan.sources = <<>>

\* C11: generating a plan with zero tasks (empty task store, empty request
\* task list) yields a plan with no entries, no citations and no error
\* indicator, both from PlannerService.generate_plan (as POST /plan/regenerate
\* passes it on) and from the POST /plan/generate handler.
C11_EmptyInputNoError ==
    /\ (result.op = REGENERATE /\ db_tasks = <<>>) =>
          NoContent(result.plan) /\ result.plan.error_message = None
    /\ (result.op = GENERATE /\ input.stored = 0 /\ input.tasks = <<>>) =>
          NoContent(result.plan) /\ result.plan.error_message = None

\* ------------------------------------------------------------------ C12
\* the latest request was a POST /plan/generate: it has answered, or its
\* generation is under way
C12_GenerateRequested == result.op = GENERATE \/ caller = GENERATE

\* the store was empty and the request named tasks, none of which was stored
C12_EveryCreateFailed ==
    /\ C12_GenerateRequested
    /\ input.stored = 0
    /\ input.tasks # <<>>
    /\ \A k \in 1..Len(input.tasks) : ~input.saved[k]

\* C12: when the task store is empty and every create_task of a
\* POST /plan/generate request fails, the handler returns a plan with the
\* error indicator set, no entries and no citations, and no generation
\* (search or ranking call) is started.
C12_AllFailedIsError ==
    C12_EveryCreateFailed =>
      /\ pc = "idle"
      /\ caller = "none"
      /\ log = <<>>
      /\ result.op = GENERATE
      /\ result.plan.error_message # None
      /\ NoContent(result.plan)
      /\ db_tasks = <<>>

C12_Witness ==
    /\ C12_EveryCreateFailed
    /\ Len(input.tasks) = 2
    /\ result.status = "error"

\* ------------------------------------------------------------------ C13
\* C13: in every plan a handler returns (generate, regenerate, update), the
\* error indicator and populated content exclude each other: if error_message
\* is set then morning, day, evening and sources are all empty, also when the
\* failure comes after some tasks were resolved or stored.
C13_ErrorExcludesContent ==
    (result.op \in PlanHandlers /\ result.status # "None") =>
      /\ result.plan.error_message # None => NoContent(result.plan)
      /\ result.status = "ok" <=> result.plan.error_message = None

\* a generation that stored the tasks of its request, resolved the first one
\* and failed on the second
C13_Witness ==
    /\ result.op = GENERATE
    /\ result.status = "error"
    /\ input.stored = 0
    /\ Len(db_tasks) = 2
    /\ Len(plan_items) = 1
    /\ gen_sources # <<>>
    /\ Len(resolutions) = 2

\* ------------------------------------------------------------------ C14
C14_History(profile, id) ==
    IF id \in DOMAIN profile.task_shifting_history
      THEN profile.task_shifting_history[id] ELSE <<>>

C14_IsPrefix(a, b) == Len(a) <= Len(b) /\ SubSeq(b, 1, Len(a)) = a

\* the step is a call of the operation op that returned normally
C14_Did(op) == ops' = ops + 1 /\ result'.op = op /\ result'.status = "ok"

\* C14: the per-task shift history is append-only across every sequence of
\* create_task, update_task_time, generate_plan, mark_source_untrusted and
\* delete_task: each task's history before an operation is a prefix of its
\* history after it, update_task_time appends exactly one entry to that
\* task's history (the new time block) and touches no other history, and
\* delete_task leaves the deleted task's history in the profile.
C14_HistoryAppendOnly ==
    [][/\ \A id \in KnownIds :
            C14_IsPrefix(C14_History(db_profile, id), C14_History(db_profile', id))
       /\ C14_Did("update_task_time") =>
            LET task == db_tasks'[1]
            IN  /\ C14_History(db_profile', task.id) =
                     Append(C14_History(db_profile, task.id), task.preferred_time)
                /\ \A id \in KnownIds \ {task.id} :
                     C14_History(db_profile', id) = C14_History(db_profile, id)
       /\ C14_Did("delete_task") =>
            db_profile'.task_shifting_history = db_profile.task_shifting_history
       /\ ~C14_Did("update_task_time") =>
            db_profile'.task_shifting_history = db_profile.task_shifting_history
      ]_vars

\* a task with a shift history was deleted, and the history is still there
C14_Witness ==
    /\ result.op = "delete_task"
    /\ result.status = "ok"
    /\ \E id \in DOMAIN db_profile.task_shifting_history :
         /\ Len(db_profile.task_shifting_history[id]) = 2
         /\ \A k \in 1..Len(db_tasks) : db_tasks[k].id # id

\* ------------------------------------------------------------------ C15
\* the place of a task in the task list the generation was given
C15_Place(task_id) == CHOOSE k \in 1..Len(gen_tasks) : gen_tasks[k].id = task_id

C15_InTaskOrder(entries) ==
    \A i, j \in 1..Len(entries) :
       i < j => C15_Place(entries[i].task_id) < C15_Place(entries[j].task_id)

\* C15: within each of the morning, day and evening sequences of a generated
\* plan, entries appear in the same relative order as their tasks in the
\* input task list.
C15_BlocksKeepTaskOrder ==
    (result.op = "generate_plan" /\ result.status = "ok" /\ gen_tasks # <<>>) =>
      /\ C15_InTaskOrder(result.plan.morning)
      /\ C15_InTaskOrder(result.plan.day)
      /\ C15_InTaskOrder(result.plan.evening)

\* three tasks, the first and the third in one block, the second in another
C15_Witness ==
    /\ result.op = "generate_plan"
    /\ result.status = "ok"
    /\ Len(gen_tasks) = 3
    /\ Len(result.plan.morning) = 2
    /\ Len(result.plan.day) = 1
    /\ result.plan.day[1].task_id = gen_tasks[2].id

\* ------------------------------------------------------------------ C16
\* the HTTP requests of the kind op made for the task so far
C16_Posts(op, task_id) ==
    SelectSeq(log, LAMBDA e : e.op = op /\ e.task = task_id)

\* the request failed: no reply, a bad status, or a reply that cannot be parsed
C16_Failed(reply) ==
    \/ reply.kind # "content"
    \/ _extract_json_from_response(reply.content) = JNone

\* C16: no external request is retried: within one generation at most one
\* search request and at most one ranking request is issued per task; after a
\* failed request (timeout, bad status, unparseable reply) the request is not
\* issued again and the degraded default is used: the answer "afternoon" with
\* no citations from a failed ranking, no citations from a search whose
\* request got no usable reply.
C16_NoRetry ==
    /\ \A k \in 1..Len(gen_tasks) :
         LET id == gen_tasks[k].id
             searches == C16_Posts("POST search", id)
             rankings == C16_Posts("POST rank", id)
         IN  /\ Len(searches) <= 1
             /\ Len(rankings) <= 1
             /\ \A n \in 1..Len(rankings) :
                  C16_Failed(rankings[n].reply) =>
                    \E r \in 1..Len(resolutions) :
                       /\ resolutions[r].task_id = id
                       /\ resolutions[r].ranking_result.answer = "afternoon"
                       /\ resolutions[r].ranking_result.sources = JList(<<>>)
                       /\ resolutions[r].returned.time_block = DAY
    /\ (\A n \in 1..Len(log) : log[n].op = "POST search" => log[n].reply.kind # "content")
         => found = <<>>

\* a finished generation whose search timed out for one task and whose
\* ranking failed with a bad status for one task and an unparseable reply
\* for the other
C16_Witness ==
    /\ pc = "returned"
    /\ \E n \in 1..Len(log) : log[n].op = "POST search" /\ log[n].reply.kind = "timeout"
    /\ \E n \in 1..Len(log) : log[n].op = "POST rank" /\ log[n].reply = RankError
    /\ \E n \in 1..Len(log) : log[n].op = "POST rank" /\ log[n].reply = RankGarbled

\* ------------------------------------------------------------------ C17
\* the citations come from the URL scan of the text: no record was extracted
C17_UrlScanPath == Falsy(_extract_json_from_response(input.reply.content))

\* C17: search_articles(query, limit) returns at most limit citations, on the
\* structured extraction path and on the plain-text URL-scan path; with the
\* limit of the batch helper, 2, one search adds at most 2 citations.
C17_AtMostLimit ==
    pc = "done" =>
      /\ C17_UrlScanPath => Len(output) <= input.limit
      /\ ~C17_UrlScanPath => Len(output) <= input.limit
      /\ input.limit = BatchLimit => Len(output) <= 2

\* a reply whose text holds four URLs and no record, searched with the limit
\* of the batch helper: the first two are returned
C17_Witness ==
    /\ pc = "done"
    /\ C17_UrlScanPath
    /\ input.limit = BatchLimit
    /\ input.reply.content = <<"x", "u1", "u2", "u1", "u2">>
    /\ Len(output) = 2

\* ------------------------------------------------------------------ C18
\* prose: any text without the opening marker ```json
C18_Prose(text) == \A p \in 1..Len(text) : text[p] # "F"

\* the ```json fenced block of the record text R
C18_Block(R) == <<"F">> \o R \o <<"E">>

\* no piece of the text is JSON
C18_NoStructure(text) ==
    \A a \in 1..Len(text) : \A b \in a..Len(text) :
       json_loads(SubSeq(text, a, b)) = JError

\* C18: extraction is insensitive to surrounding prose: for every valid record
\* R, the extractor returns for the ```json block of R with prose before and
\* after it (prose holding no other fenced block) what it returns for the
\* block alone, the record R; and for a text with no parseable structure it
\* returns None, and the search returns the empty list.
C18_ProseInsensitive ==
    pc = "done" =>
      /\ \A a \in 1..Len(input) : \A b \in (a + 3)..Len(input) :
           LET pre == SubSeq(input, 1, a - 1)
               R == SubSeq(input, a + 1, b - 1)
               post == SubSeq(input, b + 1, Len(input))
           IN  (/\ input[a] = "F"
                /\ input[b] = "E"
                /\ IsObject(R)
                /\ C18_Prose(pre)
                /\ C18_Prose(post)) =>
                 /\ output = _extract_json_from_response(C18_Block(R))
                 /\ output = json_loads(R)
      /\ C18_NoStructure(input) =>
           /\ output = JNone
           /\ _parse_llm_response(Reply("content", input, NoPayload),
                                  Query(RunTask), BatchLimit) = <<>>

\* a fenced record with prose on both sides has been extracted
C18_Witness ==
    /\ pc = "done"
    /\ input = <<"x", "F", "{", "}", "E", "x">>
    /\ output = JDict(TRUE, FALSE)

\* ------------------------------------------------------------------ C19
\* the slot _determine_time_block takes from the ranking result
C19_Slot == answer_to_timeblock(output.answer)

\* the reply's record held an answer string that was read, and reading the
\* rest of the record did not fail
C19_AnswerRead ==
    /\ api_key
    /\ input.kind = "content"
    /\ _extract_json_from_response(input.content).t = "dict"
    /\ _extract_json_from_response(input.content).members
    /\ input.payload.answer \notin {MissingS, NullS, "<num>"}

C19_SourcesRead == HasLen(input.payload.sources)

\* the key words in the answer, lower-cased
C19_Words == AnswerWords(Lower(input.payload.answer))

\* C19 (as claimed): on the ranking path the slot is always one of MORNING,
\* DAY, EVENING: an extracted answer containing "morning" maps to MORNING, one
\* containing "afternoon" or the Russian words for midday or day maps to DAY,
\* one containing "evening" maps to EVENING, and every other answer, a missing
\* one included, maps to DAY.
C19_AsClaimed ==
    pc = "done" =>
      /\ C19_Slot \in {MORNING, DAY, EVENING}
      /\ C19_AnswerRead =>
           /\ "morning" \in C19_Words => C19_Slot = MORNING
           /\ C19_Words \cap {"afternoon", "obed", "den"} # {} => C19_Slot = DAY
           /\ "evening" \in C19_Words => C19_Slot = EVENING
           /\ C19_Words \cap {"morning", "afternoon", "obed", "den", "evening"} = {}
                => C19_Slot = DAY
      /\ ~C19_AnswerRead => C19_Slot = DAY

\* C19 (amended): the slot taken from the ranking result is always one of
\* MORNING, DAY, EVENING.  When the answer string and the sources of the
\* reply's record were read, the words are tried in this order: "morning" or
\* the Russian word for morning gives MORNING; else "afternoon" or the Russian
\* words for midday or day give DAY; else "evening" or the Russian word for
\* evening gives EVENING; else DAY.  In every other case (no credential, failed
\* request, no record, answer missing or no string, sources without a length)
\* the slot is DAY.
C19_SlotOfAnswer ==
    pc = "done" =>
      /\ C19_Slot \in {MORNING, DAY, EVENING}
      /\ (C19_AnswerRead /\ C19_SourcesRead) =>
           C19_Slot = (IF C19_Words \cap {"morning", "utro"} # {} THEN MORNING
                       ELSE IF C19_Words \cap {"afternoon", "obed", "den"} # {} THEN DAY
                       ELSE IF C19_Words \cap {"evening", "vecher"} # {} THEN EVENING
                       ELSE DAY)
      /\ ~(C19_AnswerRead /\ C19_SourcesRead) => C19_Slot = DAY

\* an answer with the Russian word for morning was given the morning slot
C19_Witness ==
    /\ pc = "done"
    /\ C19_AnswerRead
    /\ C19_SourcesRead
    /\ input.payload.answer = "utrom"
    /\ C19_Slot = MORNING

\* ------------------------------------------------------------------ C20
\* the chronotype the counts of the stored histories give with margin 2
C20_Derived ==
    LET morning_count == CountOf(db_profile.task_shifting_history, MORNING)
        evening_count == CountOf(db_profile.task_shifting_history, EVENING)
    IN  IF morning_count - evening_count > 2 THEN LARK
        ELSE IF evening_count - morning_count > 2 THEN OWL
        ELSE None

\* C20 (as claimed): after every successful update_task_time the stored
\* chronotype is the one derived from the current history counts with margin
\* 2: LARK exactly when the MORNING entries exceed the EVENING entries by more
\* than 2, OWL exactly when EVENING exceeds MORNING by more than 2, and unset
\* otherwise.
C20_ChronotypeDerived ==
    (result.op = "update_task_time" /\ result.status = "ok") =>
       db_profile.chronotype = C20_Derived

\* ------------------------------------------------------------------ C21
\* the HTTP requests of the generation so far, in the order they were made
C21_Requests == SelectSeq(log, LAMBDA e : e.op \in {"POST search", "POST rank"})

C21_Requests_next == SelectSeq(log', LAMBDA e : e.op \in {"POST search", "POST rank"})

\* C21 (as claimed): the search request for task i is followed by the ranking
\* request for task i, and both happen before any request for task i+1.
C21_TaskByTask ==
    \A i, j \in 1..Len(C21_Requests) :
       C15_Place(C21_Requests[i].task) < C15_Place(C21_Requests[j].task) => i < j

\* C21 (amended): within one generation the search requests are made first,
\* one per task in task order, and then the ranking requests, in task order,
\* for the tasks whose cascade reaches the ranking step; a ranking request is
\* made only after every task has been searched; each step makes at most one
\* request and has its reply before the next one is made.
C21_SearchesThenRankings ==
    /\ [](/\ \A i, j \in 1..Len(C21_Requests) :
               (i < j /\ C21_Requests[i].op = "POST rank") =>
                  C21_Requests[j].op = "POST rank"
          /\ \A i, j \in 1..Len(C21_Requests) :
               (i < j /\ C21_Requests[i].op = C21_Requests[j].op) =>
                  C15_Place(C21_Requests[i].task) < C15_Place(C21_Requests[j].task)
          /\ (\E i \in 1..Len(C21_Requests) : C21_Requests[i].op = "POST rank") =>
               \A k \in 1..Len(gen_tasks) :
                  \E i \in 1..Len(C21_Requests) :
                     /\ C21_Requests[i].op = "POST search"
                     /\ C21_Requests[i].task = gen_tasks[k].id)
    /\ [][/\ Len(C21_Requests_next) <= Len(C21_Requests) + 1
           /\ SubSeq(C21_Requests_next, 1, Len(C21_Requests)) = C21_Requests]_vars

\* two tasks, both searched and then both ranked
C21_Witness ==
    /\ pc = "returned"
    /\ Len(gen_tasks) = 2
    /\ Len(C21_Requests) = 4
    /\ C21_Requests[2].op = "POST search"
    /\ C21_Requests[2].task = gen_tasks[2].id
    /\ C21_Requests[3].op = "POST rank"
    /\ C21_Requests[3].task = gen_tasks[1].id

\* ------------------------------------------------------------------ C22
\* the pool the batch search returned
C22_SearchPool == MergeUnique(<<>>, found)

\* the citation's title names the task's title or category
C22_Matches(task, source) ==
    IsSubstr(task.title, source.title) \/ IsSubstr(task.category, source.title)

\* C22 (as claimed): when no citation matches a task, the citations used for
\* its justification are exactly the first two entries (all of them, if fewer)
\* of the pool the batch search returned, whatever the ranking calls of
\* earlier tasks returned.
C22_FallbackIsSearchPool ==
    \A k \in 1..Len(plan_items) :
       (\A n \in 1..Len(gen_sources) : ~C22_Matches(gen_tasks[k], gen_sources[n])) =>
          plan_items[k].justification.articles =
             [n \in 1..Min(2, Len(C22_SearchPool)) |-> C22_SearchPool[n].title]

\* ------------------------------------------------------------------ C23
\* the classes of the justification texts the cascade returns; each is a
\* non-empty text
C23_BaseKinds ==
    {"preference", "previous_choice", "ranked", "ranked_with_sources",
     "no_api_key", "api_error", "timeout", "connection_error", "unexpected_error",
     "no_model_answer", "empty_answer", "unparseable", "json_error",
     "processing_error"}

C23_Degraded == C23_BaseKinds \ {"preference", "previous_choice", "ranked",
                                  "ranked_with_sources"}

\* the number of ranking citations the tasks before the k-th one added
RECURSIVE C23_AddedBefore(_)
C23_AddedBefore(k) ==
    IF k <= 1 THEN 0
    ELSE C23_AddedBefore(k - 1) + Len(resolutions[k - 1].returned.ranking_sources)

\* the citation list of the k-th task of the batch
C23_Citations(k) ==
    TaskArticles(gen_tasks[k],
                 SubSeq(gen_sources, 1, Len(C22_SearchPool) + C23_AddedBefore(k)))

\* C23: every plan entry's justification is the base justification the slot
\* cascade returned for its task, which is one of the non-empty texts, and it
\* is preceded by the titles of the task's citations if and only if the task
\* has citations.
C23_BaseKept ==
    /\ Len(plan_items) <= Len(resolutions)
    /\ \A k \in 1..Len(plan_items) :
          /\ resolutions[k].task_id = plan_items[k].task_id
          /\ ~resolutions[k].returned.raised
          /\ plan_items[k].justification.base = resolutions[k].returned.justification
          /\ plan_items[k].justification.base.kind \in C23_BaseKinds
          /\ plan_items[k].justification.articles =
                [n \in 1..Len(C23_Citations(k)) |-> C23_Citations(k)[n].title]
          /\ (plan_items[k].justification.articles # <<>>) <=> (C23_Citations(k) # <<>>)

\* a returned plan of two entries: the first without citations, the second
\* with citations and the justification of a degraded ranking
C23_Witness ==
    /\ pc = "returned"
    /\ Len(plan_items) = 2
    /\ plan_items[1].justification.articles = <<>>
    /\ plan_items[1].justification.base.kind = "ranked_with_sources"
    /\ plan_items[2].justification.articles # <<>>
    /\ plan_items[2].justification.base.kind \in C23_Degraded

\* ------------------------------------------------------------------ C24
\* C24 (as claimed): for every text, _extract_json_from_response returns a
\* JSON object or None, never a parsed value of another kind.
C24_ObjectOrNone ==
    pc = "done" => output.t \in {"dict", "None"}

\* ------------------------------------------------------------------ C25
\* C25 (as claimed): a generate_plan call that is passed an id list plans
\* only stored tasks whose id is in the list; with the empty list it returns
\* the empty plan.
C25_OnlyListedTasks ==
    [][\A task_ids \in TaskIdLists :
          (task_ids.given /\ generate_plan(task_ids)) =>
             IF pc' = "idle"
               THEN result'.plan = EmptyDayPlan
               ELSE \A k \in 1..Len(gen_tasks') : gen_tasks'[k].id \in task_ids.ids]_vars

\* ------------------------------------------------------------------ C26
\* the slot of the last successful update_task_time of the k-th task of the
\* generation, None when the task was never updated
C26_LastUpdate(k) ==
    LET history == HistoryOf(gen_tasks[k], gen_profile)
    IN  IF history = <<>> THEN None ELSE history[Len(history)]

C26_Stored(tasks) == {tasks[k] : k \in 1..Len(tasks)}

\* C26: after update_task_time(t, s) succeeds, every later generate_plan that
\* includes t places t in slot s with no ranking citations and without a
\* ranking call, until update_task_time is called for t again or t is
\* deleted. The update stores s as the task's preference and as the last
\* entry of its history; no other operation changes either; and a generation
\* resolves a task so updated to s, without a ranking call or citations.
C26_UpdateHolds ==
    /\ [](\A k \in 1..Len(resolutions) :
            C26_LastUpdate(k) # None =>
               /\ resolutions[k].task_id = gen_tasks[k].id
               /\ ~resolutions[k].ranked
               /\ ~resolutions[k].returned.raised
               /\ resolutions[k].returned.time_block = C26_LastUpdate(k)
               /\ resolutions[k].returned.ranking_sources = <<>>
               /\ \A n \in 1..Len(log) :
                     log[n].task = gen_tasks[k].id =>
                        log[n].op \notin {"rank_task_by_time", "POST rank"}
               /\ \A n \in 1..Len(gen_sources) :
                     gen_sources[n].id.kind = "ranking" =>
                        gen_sources[n].id.tid # gen_tasks[k].id
               /\ k <= Len(plan_items) => plan_items[k].time_block = C26_LastUpdate(k)
               /\ (result.op = "generate_plan" /\ result.status = "ok") =>
                     LET block == CASE C26_LastUpdate(k) = MORNING -> result.plan.morning
                                    [] C26_LastUpdate(k) = EVENING -> result.plan.evening
                                    [] OTHER -> result.plan.day
                     IN  \E n \in 1..Len(block) : block[n].task_id = gen_tasks[k].id)
    /\ [][/\ \A t \in KnownIds, s \in TimeBlock :
              (update_task_time(t, s) /\ result'.status = "ok") =>
                 /\ C14_History(db_profile', t) # <<>>
                 /\ C14_History(db_profile', t)[Len(C14_History(db_profile', t))] = s
                 /\ \E k \in 1..Len(db_tasks') :
                       db_tasks'[k].id = t /\ db_tasks'[k].preferred_time = s
          /\ (~C14_Did("update_task_time") /\ ~C14_Did("delete_task")) =>
                 /\ C26_Stored(db_tasks) \subseteq C26_Stored(db_tasks')
                 /\ \A t \in KnownIds :
                       C14_History(db_profile', t) = C14_History(db_profile, t)
          /\ pc' # "idle" =>
                 /\ gen_profile' = db_profile'
                 /\ C26_Stored(gen_tasks') \subseteq C26_Stored(db_tasks')]_vars

\* a returned plan of two tasks with the endpoint configured: one was moved
\* to the evening by update_task_time and is planned there without a ranking
\* call, the other was ranked
C26_Witness ==
    /\ api_key
    /\ result.op = "generate_plan"
    /\ result.status = "ok"
    /\ Len(resolutions) = 2
    /\ \E k \in 1..2 :
          /\ C26_LastUpdate(k) = EVENING
          /\ ~resolutions[k].ranked
          /\ \E n \in 1..Len(result.plan.evening) :
                result.plan.evening[n].task_id = gen_tasks[k].id
          /\ resolutions[3 - k].ranked
          /\ \E n \in 1..Len(log) :
                log[n].op = "POST rank" /\ log[n].task = gen_tasks[3 - k].id

\* ------------------------------------------------------------------ C27
C27_NoUrl == {"", NullS, MissingS}

C27_Links(sources) == [n \in 1..Len(sources) |-> sources[n].link]

\* the URLs of the items that have one, in the order of the items
C27_UrlsOf(urls) == SelectSeq(urls, LAMBDA u : u \notin C27_NoUrl)

\* a reply whose citations are read from its JSON object, each item an object
C27_ItemsRead(content, sources_data) ==
    /\ _extract_json_from_response(content).t = "dict"
    /\ _extract_json_from_response(content).members
    /\ sources_data.t = "list"
    /\ \A n \in 1..Len(sources_data.items) : sources_data.items[n].t = "dict"

C27_Kept(items, n) == C27_UrlsOf([k \in 1..Min(n, Len(items)) |-> ArticleUrl(items[k])])

\* C27: every citation of a returned plan, of the citation store and of the
\* lists a generation works on has a non-empty URL; of the items of a search
\* reply or a ranking reply exactly those without a URL are dropped, the
\* others are kept in their order, and the generation does not fail.
C27_UrlOrDropped ==
    /\ [](/\ \A n \in 1..Len(found) : found[n].link \notin C27_NoUrl
          /\ \A n \in 1..Len(gen_sources) : gen_sources[n].link \notin C27_NoUrl
          /\ \A n \in 1..Len(result.plan.sources) :
                result.plan.sources[n].link \notin C27_NoUrl
          /\ \A source \in db_sources : source.link \notin C27_NoUrl
          /\ \A k \in 1..Len(resolutions) :
                LET sources_data == resolutions[k].ranking_result.sources
                    kept == resolutions[k].returned.ranking_sources
                IN  (/\ resolutions[k].ranked
                     /\ sources_data.t = "list"
                     /\ \A n \in 1..Len(sources_data.items) :
                           /\ sources_data.items[n].t = "dict"
                           /\ sources_data.items[n].title # NullTitle) =>
                       /\ ~resolutions[k].returned.raised
                       /\ C27_Links(kept) =
                             C27_UrlsOf([n \in 1..Len(sources_data.items) |->
                                           sources_data.items[n].url])
                       /\ \A n \in 1..Len(kept) :
                             \E m \in 1..Len(gen_sources) : gen_sources[m] = kept[n])
    /\ [][pc = "search" =>
            LET post == log'[Len(log')]
                new == SubSeq(found', Len(found) + 1, Len(found'))
            IN  (/\ post.op = "POST search"
                 /\ post.reply.kind = "content"
                 /\ C27_ItemsRead(post.reply.content, post.reply.payload.sources)) =>
                   /\ C27_Links(new) = C27_Kept(post.reply.payload.sources.items, BatchLimit)
                   /\ \A n \in 1..Len(new) :
                         \E m \in 1..Len(gen_sources') : gen_sources'[m].link = new[n].link
                   /\ pc' \in {"search", "plan"}]_vars

\* a plan was returned and saved after a search reply and a ranking reply
\* that each listed a citation without a URL: the plan and the store hold the
\* other citations of both replies
C27_Witness ==
    /\ result.op = "generate_plan"
    /\ result.status = "ok"
    /\ \E n \in 1..Len(log) : log[n].op = "POST search" /\ log[n].reply = SearchMixed
    /\ \E k \in 1..Len(resolutions) :
          /\ Len(resolutions[k].ranking_result.sources.items) = 3
          /\ Len(resolutions[k].returned.ranking_sources) = 1
    /\ \E a, b \in db_sources :
          /\ a.link = "u2" /\ a.id.kind = "polza"
          /\ b.link = "u1" /\ b.id.kind = "ranking"
          /\ \E n, m \in 1..Len(result.plan.sources) :
                result.plan.sources[n] = a /\ result.plan.sources[m] = b

\* ------------------------------------------------------------------ C28
\* C28: each stored task with a non-empty shift history has preferred_time
\* set and equal to the last entry of its history; so no generation resolves
\* a task by the shift-history branch of the cascade.
C28_PreferenceFollowsHistory ==
    /\ \A k \in 1..Len(db_tasks) :
          LET history == C14_History(db_profile, db_tasks[k].id)
          IN  history # <<>> =>
                /\ db_tasks[k].preferred_time \in TimeBlock
                /\ db_tasks[k].preferred_time = history[Len(history)]
    /\ \A k \in 1..Len(resolutions) :
          /\ ~UsesHistory(gen_tasks[k], gen_profile)
          /\ resolutions[k].returned.justification.kind # "previous_choice"

\* a task moved twice, to different slots, has been planned by its preference
C28_Witness ==
    /\ result.op = "generate_plan"
    /\ result.status = "ok"
    /\ \E k \in 1..Len(resolutions) :
          /\ Len(HistoryOf(gen_tasks[k], gen_profile)) = 2
          /\ HistoryOf(gen_tasks[k], gen_profile)[1] # HistoryOf(gen_tasks[k], gen_profile)[2]
          /\ resolutions[k].returned.justification.kind = "preference"
          /\ \E n \in 1..Len(db_tasks) : db_tasks[n] = gen_tasks[k]

\* ------------------------------------------------------------------ C29
C29_RowsOf(rows, task_id) == SelectSeq(rows, LAMBDA r : r.task_id = task_id)

C29_Others(rows, items) ==
    SelectSeq(rows, LAMBDA r : \A k \in 1..Len(items) : items[k].task_id # r.task_id)

\* C29: the stored plans hold at most one row per task id and no row of a
\* task that is not stored; a generation that returns a plan leaves for each
\* of its tasks the row of its new entry and keeps the rows of the other
\* tasks; delete_task removes the row of its task and no other; every other
\* step leaves the stored plans alone.
C29_OneRowPerStoredTask ==
    /\ [](\A n \in 1..Len(db_plans) :
            /\ Len(C29_RowsOf(db_plans, db_plans[n].task_id)) = 1
            /\ \E k \in 1..Len(db_tasks) : db_tasks[k].id = db_plans[n].task_id)
    /\ [][IF pc = "plan" /\ result'.op = "generate_plan" /\ result'.status = "ok"
            THEN /\ \A k \in 1..Len(plan_items') :
                       C29_RowsOf(db_plans', plan_items'[k].task_id)
                          = <<PlanRow(plan_items'[k])>>
                 /\ C29_Others(db_plans', plan_items') = C29_Others(db_plans, plan_items')
                 /\ Len(plan_items') = Len(gen_tasks)
          ELSE IF C14_Did("delete_task")
            THEN \E task_id \in KnownIds :
                    /\ \E k \in 1..Len(db_tasks) : db_tasks[k].id = task_id
                    /\ \A k \in 1..Len(db_tasks') : db_tasks'[k].id # task_id
                    /\ db_plans' = SelectSeq(db_plans, LAMBDA r : r.task_id # task_id)
          ELSE db_plans' = db_plans]_vars

\* the second generation planned one of the two stored tasks again: its row
\* is the new entry, the other task's row is still there
C29_Witness ==
    /\ ops = 2
    /\ result.op = "generate_plan"
    /\ result.status = "ok"
    /\ Len(gen_tasks) = 1
    /\ Len(db_plans) = 2
    /\ db_plans[1].task_id # gen_tasks[1].id
    /\ db_plans[1].time_block = MORNING
    /\ db_plans[2] = PlanRow(plan_items[1])
    /\ db_plans[2].time_block = EVENING

\* ------------------------------------------------------------------ C30
C30_StoredIds == {db_tasks[k].id : k \in 1..Len(db_tasks)}

\* C30: update_task_time for a task id that is not in the task store raises
\* ValueError and leaves the task store, the shift history, the chronotype,
\* the distrust list and the edit-history log unchanged.
C30_UnknownIdChangesNothing ==
    [][\A task_id \in KnownIds \ C30_StoredIds, block \in TimeBlock :
          update_task_time(task_id, block) =>
             /\ result' = Returned("update_task_time", "ValueError", EmptyDayPlan)
             /\ db_tasks' = db_tasks
             /\ db_profile' = db_profile
             /\ db_edit_history' = db_edit_history
             /\ db_plans' = db_plans
             /\ db_sources' = db_sources]_vars

\* update_task_time has raised ValueError on a store that holds a task, a
\* shift history and an edit-history row
C30_Witness ==
    /\ result = Returned("update_task_time", "ValueError", EmptyDayPlan)
    /\ db_tasks # <<>>
    /\ db_edit_history # <<>>
    /\ DOMAIN db_profile.task_shifting_history # {}

====
